---- MODULE Spec2Model ----
(***************************************************************************)
(* kineapp (src/main.py): a Streamlit application over a SQLite store of   *)
(* patients, traitements and seances.  The model covers                    *)
(*   - the store: the three tables, AUTOINCREMENT ids, ON DELETE CASCADE;   *)
(*   - the list_* queries (filter and ORDER BY);                            *)
(*   - progression_traitement, the aggregation over a session history;     *)
(*   - st.cache_data over the list_* queries (ttl, clear_caches);           *)
(*   - the hierarchical view (view_manager, render_*, _go_to): one action   *)
(*     per user event, each action being the whole script run(s) the event  *)
(*     triggers, up to the point where the page waits for the next event.   *)
(*                                                                         *)
(* Conventions.  Python None and a SQL NULL id are 0 (AUTOINCREMENT ids     *)
(* start at 1, and the code tests ids by truthiness).  Text is a sequence   *)
(* of one-character strings.  Row positions are 1-based here, 0-based in    *)
(* the source.  Columns that carry no logic (email, adresse, notes,         *)
(* date_naissance, diagnostic, cout, ...) are left out: they are           *)
(* written by the same statements as the columns kept.                      *)
(***************************************************************************)
EXTENDS Integers, Sequences, FiniteSets, TLC

VARIABLES
    patients,               \* table patients:    id -> [nom, prenom, telephone, cin]
    traitements,            \* table traitements: id -> [patient_id, date_debut, nb_seances_prevues, tarif_par_seance, statut]
    seances,                \* table seances:     id -> [traitement_id, date, heure, duree_minutes, effectuee, payee]
    sqlite_sequence,        \* AUTOINCREMENT: the largest id ever assigned, per table
    level,                  \* st.session_state["level"]
    current_patient_id,     \* st.session_state["current_patient_id"]
    current_traitement_id,  \* st.session_state["current_traitement_id"]
    current_seance_id,      \* st.session_state["current_seance_id"]
    search,                 \* value of the text_input of render_patients
    patients_table,         \* widget state of st.dataframe(key="patients_table")
    traitements_table,      \* widget state of st.dataframe(key="traitements_table")
    seances_table,          \* widget state of st.dataframe(key="seances_table")
    last,                   \* what the last user event did (the st.success / st.error shown, or the exception)
    t_df, s_df,             \* the arguments of a call of progression_traitement, as the caller holds them
    result,                 \* what the last call of progression_traitement returned
    cache,                  \* st.cache_data of list_*: (function, arguments) -> [rows, at]
    now,                    \* the clock the ttl is measured on
    served                  \* the last step at the data layer: a list_* call and what it returned, or a write

vars == <<patients, traitements, seances, sqlite_sequence, level, current_patient_id,
          current_traitement_id, current_seance_id, search, patients_table,
          traitements_table, seances_table, last, t_df, s_df, result,
          cache, now, served>>

storeVars == <<patients, traitements, seances, sqlite_sequence>>
viewVars == <<level, current_patient_id, current_traitement_id, current_seance_id,
              search, patients_table, traitements_table, seances_table, last>>
enrichVars == <<t_df, s_df, result>>
cacheVars == <<cache, now, served>>

None == 0

(***************************************************************************)
(* Bounds of the model.                                                    *)
(***************************************************************************)
MaxPatients == 2        \* patients ever created in a run of Spec
MaxTraitements == 1     \* traitements ever created in a run of Spec
MaxSeances == 1         \* seances ever created in a run of Spec
StorePatients == 1      \* patients ever created in a run of SpecStore
StoreTraitements == 2   \* traitements ever created in a run of SpecStore
StoreSeances == 2       \* seances ever created in a run of SpecStore
ScenarioSeances == 4    \* seances ever created in a run of SpecScenario
MaxRows == 2            \* rows of the session frame handed to progression_traitement

(***************************************************************************)
(* Text.                                                                   *)
(***************************************************************************)
Chars == {" ", "%", "A", "X", "Y", "_", "a", "b", "x", "y"}

\* The byte of a character (BINARY collation of ORDER BY).
CharCode(c) ==
    CASE c = " " -> 32
      [] c = "%" -> 37
      [] c = "A" -> 65
      [] c = "X" -> 88
      [] c = "Y" -> 89
      [] c = "_" -> 95
      [] c = "a" -> 97
      [] c = "b" -> 98
      [] c = "x" -> 120
      [] c = "y" -> 121

\* LIKE folds ASCII case.
Lower(c) ==
    CASE c = "A" -> "a"
      [] c = "X" -> "x"
      [] c = "Y" -> "y"
      [] OTHER -> c

LowerText(s) == [i \in 1..Len(s) |-> Lower(s[i])]

\* str.strip()
\* (StripNothing: the text taken as typed.)
StripNothing(s) == s

RECURSIVE LStrip(_)
LStrip(s) == IF s # <<>> /\ Head(s) = " " THEN LStrip(Tail(s)) ELSE s

RECURSIVE RStrip(_)
RStrip(s) == IF s # <<>> /\ s[Len(s)] = " " THEN RStrip(SubSeq(s, 1, Len(s) - 1)) ELSE s

Strip(s) == RStrip(LStrip(s))

\* text LIKE pat: in pat "%" stands for any run of characters and "_" for any
\* one character; the other characters match with ASCII case folded.
RECURSIVE LikeMatch(_, _)
LikeMatch(pat, text) ==
    IF pat = <<>>
    THEN text = <<>>
    ELSE IF Head(pat) = "%"
         THEN \E k \in 0..Len(text) : LikeMatch(Tail(pat), SubSeq(text, k + 1, Len(text)))
         ELSE /\ text # <<>>
              /\ (Head(pat) = "_" \/ Lower(Head(pat)) = Lower(Head(text)))
              /\ LikeMatch(Tail(pat), Tail(text))

\* value LIKE ?, with the parameter f"%{search}%"
Like(value, srch) == LikeMatch(<<"%">> \o srch \o <<"%">>, value)

\* a < b for TEXT values under ORDER BY
TextLess(a, b) ==
    \E k \in 1..(Len(a) + 1) :
        /\ k <= Len(b)
        /\ \A j \in 1..(k - 1) : a[j] = b[j]
        /\ (k = Len(a) + 1 \/ CharCode(a[k]) < CharCode(b[k]))

\* The rows of S as a sequence, x before y when before[x, y].
RECURSIVE SortRows(_, _)
SortRows(S, before) ==
    IF S = {} THEN <<>>
    ELSE LET m == CHOOSE x \in S : \A y \in S \ {x} : before[x, y]
         IN <<m>> \o SortRows(S \ {m}, before)

(***************************************************************************)
(* The store.                                                              *)
(***************************************************************************)
\* PRAGMA foreign_keys = ON on the one shared connection.
\* (ForeignKeysOff: the connection as sqlite3 opens it, without the PRAGMA.)
ForeignKeysOff == FALSE
ForeignKeys == TRUE

\* FOREIGN KEY(patient_id) REFERENCES patients(id) ON DELETE CASCADE:
\* the traitements left once the patients table is P.
CascadeTraitements(T, P) ==
    IF ForeignKeys
    THEN [t \in {x \in DOMAIN T : T[x].patient_id \in DOMAIN P} |-> T[t]]
    ELSE T

\* FOREIGN KEY(traitement_id) REFERENCES traitements(id) ON DELETE CASCADE:
\* the seances left once the traitements table is T.
CascadeSeances(S, T) ==
    IF ForeignKeys
    THEN [s \in {x \in DOMAIN S : S[x].traitement_id \in DOMAIN T} |-> S[s]]
    ELSE S

\* A table without the row id (DELETE ... WHERE id=?; no row, no change).
DeleteRow(tbl, id) == [x \in DOMAIN tbl \ {id} |-> tbl[x]]

\* A table with the row id inserted or replaced.
PutRow(tbl, id, row) == [x \in DOMAIN tbl \cup {id} |-> IF x = id THEN row ELSE tbl[x]]

\* id INTEGER PRIMARY KEY AUTOINCREMENT: the id of a row inserted is one more
\* than the largest id the table ever held (seq, kept in sqlite_sequence).
\* (RowidOfTable: INTEGER PRIMARY KEY alone, one more than the largest id the
\* table holds.)
LargestId(tbl) == IF DOMAIN tbl = {} THEN 0 ELSE CHOOSE m \in DOMAIN tbl : \A x \in DOMAIN tbl : x <= m
RowidOfTable(tbl, seq) == LargestId(tbl) + 1
Autoincrement(tbl, seq) == (IF LargestId(tbl) > seq THEN LargestId(tbl) ELSE seq) + 1

(***************************************************************************)
(* The queries.  list_* are memoized (st.cache_data, ttl=10) and every     *)
(* write of the application is followed by clear_caches() before the next  *)
(* read, so a read returns what the query returns on the store.  Rows with *)
(* equal ORDER BY keys come in rowid order (the table scan's order).        *)
(***************************************************************************)
NoStatut == ""
NoDate == 0

PatientRow(P, p) ==
    [id |-> p, nom |-> P[p].nom, prenom |-> P[p].prenom,
     telephone |-> P[p].telephone, cin |-> P[p].cin]

\* The ORDER BY of list_patients.
\* (OrderByNom: ORDER BY nom.)
OrderByNom(x, y) ==
    \/ TextLess(x.nom, y.nom)
    \/ (x.nom = y.nom /\ x.id < y.id)
OrderByNomPrenom(x, y) ==
    \/ TextLess(x.nom, y.nom)
    \/ (x.nom = y.nom /\ TextLess(x.prenom, y.prenom))
    \/ (x.nom = y.nom /\ x.prenom = y.prenom /\ x.id < y.id)

\* SELECT * FROM patients [WHERE nom LIKE ? OR prenom LIKE ? OR telephone LIKE ?
\* OR cin LIKE ?] ORDER BY nom, prenom
list_patients(P, srch) ==
    LET ids == IF srch # <<>>
               THEN {p \in DOMAIN P : \/ Like(P[p].nom, srch)
                                      \/ Like(P[p].prenom, srch)
                                      \/ Like(P[p].telephone, srch)
                                      \/ Like(P[p].cin, srch)}
               ELSE DOMAIN P
        rows == {PatientRow(P, p) : p \in ids}
        before == [x \in rows, y \in rows |-> OrderByNomPrenom(x, y)]
    IN SortRows(rows, before)

TraitementRow(T, t) ==
    [id |-> t, patient_id |-> T[t].patient_id, date_debut |-> T[t].date_debut,
     nb_seances_prevues |-> T[t].nb_seances_prevues,
     tarif_par_seance |-> T[t].tarif_par_seance, statut |-> T[t].statut]

\* SELECT * FROM traitements [WHERE patient_id = ? [AND statut = ?]]
\* ORDER BY date_debut DESC, id DESC
\* (list_traitements_of_all: the query without its patient_id condition.)
list_traitements_of_all(T, patient_id, statut) ==
    LET ids == {t \in DOMAIN T : statut # NoStatut => T[t].statut = statut}
        rows == {TraitementRow(T, t) : t \in ids}
        before == [x \in rows, y \in rows |->
                      \/ x.date_debut > y.date_debut
                      \/ (x.date_debut = y.date_debut /\ x.id > y.id)]
    IN SortRows(rows, before)
list_traitements(T, patient_id, statut) ==
    LET ids == {t \in DOMAIN T :
                   /\ (patient_id # None => T[t].patient_id = patient_id)
                   /\ (statut # NoStatut => T[t].statut = statut)}
        rows == {TraitementRow(T, t) : t \in ids}
        before == [x \in rows, y \in rows |->
                      \/ x.date_debut > y.date_debut
                      \/ (x.date_debut = y.date_debut /\ x.id > y.id)]
    IN SortRows(rows, before)

SeanceRow(S, s) ==
    [id |-> s, traitement_id |-> S[s].traitement_id, date |-> S[s].date,
     heure |-> S[s].heure, duree_minutes |-> S[s].duree_minutes,
     effectuee |-> S[s].effectuee, payee |-> S[s].payee]

\* SELECT * FROM seances [WHERE traitement_id = ? [AND date >= ?] [AND date <= ?]]
\* ORDER BY date ASC, heure ASC.  heure is "HH:MM", a number here, and 0 for
\* NULL, which ORDER BY ... ASC puts first.
OrderByDateHeure(x, y) ==
    \/ x.date < y.date
    \/ (x.date = y.date /\ x.heure < y.heure)
    \/ (x.date = y.date /\ x.heure = y.heure /\ x.id < y.id)

list_seances(S, traitement_id, date_min, date_max) ==
    LET ids == {s \in DOMAIN S :
                   /\ (traitement_id # None => S[s].traitement_id = traitement_id)
                   /\ (date_min # NoDate => S[s].date >= date_min)
                   /\ (date_max # NoDate => S[s].date <= date_max)}
        rows == {SeanceRow(S, s) : s \in ids}
        before == [x \in rows, y \in rows |-> OrderByDateHeure(x, y)]
    IN SortRows(rows, before)

\* The ids of the rows of a frame.
Ids(df) == {df[i].id : i \in 1..Len(df)}

\* df[df["id"] == id].iloc[0], for an id of the frame
RowOf(df, id) == df[CHOOSE i \in 1..Len(df) : df[i].id = id]

(***************************************************************************)
(* The tables shown.  st.dataframe(display, key=..., on_select="rerun",     *)
(* selection_mode="single-row") returns the selected row positions.  The   *)
(* frame shown holds the display columns only, not the id.                  *)
(***************************************************************************)
display_df(df) ==
    [i \in 1..Len(df) |-> [nom |-> df[i].nom, prenom |-> df[i].prenom,
                           telephone |-> df[i].telephone]]
display_t(df) == [i \in 1..Len(df) |-> [date_debut |-> df[i].date_debut, statut |-> df[i].statut]]
display_s(df) ==
    [i \in 1..Len(df) |-> [date |-> df[i].date, heure |-> df[i].heure,
                           duree_minutes |-> df[i].duree_minutes,
                           effectuee |-> df[i].effectuee, payee |-> df[i].payee]]

\* The state of a table widget: the selected positions and the frame they were
\* selected in (kept only while a row is selected).
EmptyTable == [data |-> <<>>, rows |-> <<>>]
Table(data, rows) == IF rows = <<>> THEN EmptyTable ELSE [data |-> data, rows |-> rows]

\* The selection a table widget reports in a run that shows `data`.  Streamlit
\* identifies the element by its key and its arguments, the frame shown among
\* them: a run that shows the same frame finds the widget and its selection,
\* a run that shows another frame makes a new widget, with no row selected.
\* Nothing in the application compares the row selected with the row that was.
\* (SelectionKeptByKey: a widget identified by its key alone.)
SelectionKeptByKey(widget, data) == widget.rows
DataframeSelection(widget, data) ==
    IF widget.data = data THEN widget.rows ELSE <<>>

(***************************************************************************)
(* The script runs.  A user event reruns the script; a write or _go_to     *)
(* ends its run with st_rerun(), and the next run renders the page again.   *)
(* Run* is the last run of an event: the one that renders the page the      *)
(* user then sees.  It reads the store as the event left it (primed).       *)
(* A widget that a run does not render loses its state.                     *)
(***************************************************************************)
\* What an event did: the write, the exception that ended its last run ("" for
\* none), and the number of rows its statement removed from the three tables.
Rows(P, T, S) == Cardinality(DOMAIN P) + Cardinality(DOMAIN T) + Cardinality(DOMAIN S)
Outcome(event, raised) ==
    [event |-> event, raised |-> raised,
     removed |-> IF event = "deleted"
                 THEN Rows(patients, traitements, seances) - Rows(patients', traitements', seances')
                 ELSE 0]

\* render_patients, no button pressed: the table, then current_patient_id
\* from the selected position.  df.iloc[position] raises IndexError past the
\* end of df, and the run stops there.
RunPatients(srch, widget, cp, ct, event) ==
    \E df \in {list_patients(patients', srch)} :
       \E rows \in {DataframeSelection(widget, display_df(df))} :
          /\ level' = "patients"
          /\ search' = srch
          /\ patients_table' = Table(display_df(df), rows)
          /\ traitements_table' = EmptyTable
          /\ seances_table' = EmptyTable
          /\ current_traitement_id' = ct
          /\ current_seance_id' = current_seance_id
          /\ IF rows = <<>>
             THEN current_patient_id' = None /\ last' = Outcome(event, "")
             ELSE IF rows[1] > Len(df)
                  THEN current_patient_id' = cp /\ last' = Outcome(event, "IndexError")
                  ELSE current_patient_id' = df[rows[1]].id /\ last' = Outcome(event, "")

\* _go_to(level, patient_id, traitement_id): the three assignments; the rerun
\* is the Run* that follows.  current_seance_id is not assigned.
\* render_traitements, no button pressed.
RunTraitements(pid, widget, ct, event) ==
    IF pid = None
    THEN RunPatients(<<>>, EmptyTable, None, None, event)
    ELSE \E df \in {list_traitements(traitements', pid, NoStatut)} :
            /\ level' = "traitements"
            /\ current_patient_id' = pid
            /\ search' = <<>>
            /\ patients_table' = EmptyTable
            /\ seances_table' = EmptyTable
            /\ current_seance_id' = current_seance_id
            /\ IF pid \notin DOMAIN patients'
               THEN /\ traitements_table' = EmptyTable
                    /\ current_traitement_id' = ct
                    /\ last' = Outcome(event, "IndexError")
               ELSE \E rows \in {DataframeSelection(widget, display_t(df))} :
                       /\ traitements_table' = Table(display_t(df), rows)
                       /\ IF rows = <<>>
                          THEN current_traitement_id' = None /\ last' = Outcome(event, "")
                          ELSE IF rows[1] > Len(df)
                               THEN current_traitement_id' = ct /\ last' = Outcome(event, "IndexError")
                               ELSE current_traitement_id' = df[rows[1]].id /\ last' = Outcome(event, "")

\* render_seances, no button pressed.
RunSeances(pid, tid, widget, cs, event) ==
    IF tid = None \/ pid = None
    THEN RunPatients(<<>>, EmptyTable, None, None, event)
    ELSE \E tdf \in {list_traitements(traitements', pid, NoStatut)},
            df \in {list_seances(seances', tid, NoDate, NoDate)} :
            /\ level' = "seances"
            /\ current_patient_id' = pid
            /\ current_traitement_id' = tid
            /\ search' = <<>>
            /\ patients_table' = EmptyTable
            /\ traitements_table' = EmptyTable
            /\ IF tid \notin Ids(tdf)
               THEN /\ seances_table' = EmptyTable
                    /\ current_seance_id' = cs
                    /\ last' = Outcome(event, "IndexError")
               ELSE \E rows \in {DataframeSelection(widget, display_s(df))} :
                       /\ seances_table' = Table(display_s(df), rows)
                       /\ IF rows = <<>>
                          THEN current_seance_id' = None /\ last' = Outcome(event, "")
                          ELSE IF rows[1] > Len(df)
                               THEN current_seance_id' = cs /\ last' = Outcome(event, "IndexError")
                               ELSE current_seance_id' = df[rows[1]].id /\ last' = Outcome(event, "")

\* render_dashboard: it reads the store and writes no state.
RunDashboard(cp, ct, event) ==
    /\ level' = "dashboard"
    /\ current_patient_id' = cp
    /\ current_traitement_id' = ct
    /\ current_seance_id' = current_seance_id
    /\ search' = <<>>
    /\ patients_table' = EmptyTable
    /\ traitements_table' = EmptyTable
    /\ seances_table' = EmptyTable
    /\ last' = Outcome(event, "")

\* The positions a click on a table of n rows can select (single-row).
Clicks(n) == {<<>>} \cup {<<i>> : i \in 1..n}

\* The row the page works on: df[df["id"] == id], None when there is none.
\* (RowNotRequired: a button that is never disabled.)
RowNotRequired(df, id) == TRUE
HasRow(df, id) == id # None /\ id \in Ids(df)

(***************************************************************************)
(* The user events of the hierarchical view.  D gives the values the user   *)
(* types and the number of rows a run of the model creates.                 *)
(***************************************************************************)
NotCalled == [called |-> FALSE, raised |-> "", rows |-> <<>>]

\* No list_* call and no write yet.
NoKey == [kind |-> "", search |-> <<>>, id |-> None]
NoCall == [op |-> "", key |-> NoKey, rows |-> <<>>, hit |-> FALSE]

\* view_manager's first run, on the database init_db creates.
Init ==
    /\ patients = <<>>
    /\ traitements = <<>>
    /\ seances = <<>>
    /\ sqlite_sequence = [patients |-> 0, traitements |-> 0, seances |-> 0]
    /\ level = "dashboard"
    /\ current_patient_id = None
    /\ current_traitement_id = None
    /\ current_seance_id = None
    /\ search = <<>>
    /\ patients_table = EmptyTable
    /\ traitements_table = EmptyTable
    /\ seances_table = EmptyTable
    /\ last = [event |-> "read", raised |-> "", removed |-> 0]
    /\ t_df = <<>>
    /\ s_df = <<>>
    /\ result = NotCalled
    /\ cache = <<>>
    /\ now = 0
    /\ served = NoCall

\* The page was rendered to its end by the last run.
Rendered(lv) == level = lv /\ last.raised = ""

\* A rejected form: st.error, no write, no rerun; the run renders the page as it was.
Rejected ==
    /\ last' = [event |-> "rejected", raised |-> "", removed |-> 0]
    /\ UNCHANGED <<level, current_patient_id, current_traitement_id, current_seance_id,
                   search, patients_table, traitements_table, seances_table>>

\* ---- dashboard ----
\* "Gerer les patients": _go_to("patients")
DashboardToPatients ==
    /\ level = "dashboard"
    /\ UNCHANGED storeVars
    /\ UNCHANGED enrichVars
    /\ UNCHANGED cacheVars
    /\ RunPatients(<<>>, EmptyTable, None, None, "read")

\* ---- patients ----
\* "Tableau de bord": _go_to("dashboard")
\* (PatientsToDashboardOfSelection: the button disabled while no patient is
\* selected.)
PatientsToDashboardOfSelection ==
    /\ level = "patients"
    /\ current_patient_id # None
    /\ UNCHANGED storeVars
    /\ UNCHANGED enrichVars
    /\ UNCHANGED cacheVars
    /\ RunDashboard(None, None, "read")
PatientsToDashboard ==
    /\ level = "patients"
    /\ UNCHANGED storeVars
    /\ UNCHANGED enrichVars
    /\ UNCHANGED cacheVars
    /\ RunDashboard(None, None, "read")

\* A click in the patients table.
SelectPatient ==
    /\ level = "patients"
    /\ UNCHANGED storeVars
    /\ UNCHANGED enrichVars
    /\ UNCHANGED cacheVars
    /\ \E shown \in {display_df(list_patients(patients, search))} :
          \E rows \in Clicks(Len(shown)) :
             /\ rows # patients_table.rows
             /\ RunPatients(search, [data |-> shown, rows |-> rows],
                            current_patient_id, current_traitement_id, "read")

\* Typing in "Recherche".
SetSearch(D) ==
    /\ level = "patients"
    /\ UNCHANGED storeVars
    /\ UNCHANGED enrichVars
    /\ UNCHANGED cacheVars
    /\ \E srch \in D.searches \ {search} :
          RunPatients(srch, patients_table, current_patient_id, current_traitement_id, "read")

\* form_add_patient_simple, "Enregistrer"
AddPatient(D) ==
    /\ Rendered("patients")
    /\ sqlite_sequence.patients < D.maxP
    /\ UNCHANGED enrichVars
    /\ UNCHANGED cacheVars
    /\ \E nom \in D.noms, prenom \in D.prenoms, telephone \in D.telephones, cin \in D.cins :
          IF Strip(nom) = <<>>
          THEN UNCHANGED storeVars /\ Rejected
          ELSE LET id == Autoincrement(patients, sqlite_sequence.patients)
               IN /\ patients' = PutRow(patients, id,
                                        [nom |-> Strip(nom), prenom |-> Strip(prenom),
                                         telephone |-> Strip(telephone), cin |-> Strip(cin)])
                  /\ sqlite_sequence' = [sqlite_sequence EXCEPT !.patients = id]
                  /\ UNCHANGED <<traitements, seances>>
                  /\ RunPatients(search, patients_table, current_patient_id,
                                 current_traitement_id, "added")

\* form_edit_patient_simple, "Mettre a jour"
UpdatePatient(D) ==
    /\ Rendered("patients")
    /\ HasRow(list_patients(patients, search), current_patient_id)
    /\ UNCHANGED enrichVars
    /\ UNCHANGED cacheVars
    /\ \E nom \in D.noms, prenom \in D.prenoms, telephone \in D.telephones, cin \in D.cins :
          IF Strip(nom) = <<>>
          THEN UNCHANGED storeVars /\ Rejected
          ELSE /\ patients' = PutRow(patients, current_patient_id,
                                     [nom |-> Strip(nom), prenom |-> Strip(prenom),
                                      telephone |-> Strip(telephone), cin |-> Strip(cin)])
               /\ UNCHANGED <<traitements, seances, sqlite_sequence>>
               /\ RunPatients(search, patients_table, current_patient_id,
                              current_traitement_id, "updated")

\* DELETE FROM patients WHERE id=?, with the cascades of the schema.
\* (DeletePatientKeepingRows: the statement without the cascades.)
DeletePatientKeepingRows(P, T, S, pid) == [patients |-> DeleteRow(P, pid), traitements |-> T, seances |-> S]
SqlDeletePatient(P, T, S, pid) ==
    LET P2 == DeleteRow(P, pid)
        T2 == CascadeTraitements(T, P2)
        S2 == CascadeSeances(S, T2)
    IN [patients |-> P2, traitements |-> T2, seances |-> S2]

\* form_edit_patient_simple, "Supprimer"
DeletePatient ==
    /\ Rendered("patients")
    /\ HasRow(list_patients(patients, search), current_patient_id)
    /\ UNCHANGED enrichVars
    /\ UNCHANGED cacheVars
    /\ LET db == SqlDeletePatient(patients, traitements, seances, current_patient_id)
       IN /\ patients' = db.patients
          /\ traitements' = db.traitements
          /\ seances' = db.seances
    /\ UNCHANGED sqlite_sequence
    /\ RunPatients(search, patients_table, current_patient_id, current_traitement_id, "deleted")

\* "Ouvrir les traitements du patient": _go_to("traitements", patient_id=pid)
OpenTraitements ==
    /\ Rendered("patients")
    /\ HasRow(list_patients(patients, search), current_patient_id)
    /\ UNCHANGED storeVars
    /\ UNCHANGED enrichVars
    /\ UNCHANGED cacheVars
    /\ RunTraitements(current_patient_id, EmptyTable, None, "read")

\* ---- traitements ----
\* "Retour aux patients": _go_to("patients")
TraitementsToPatients ==
    /\ level = "traitements"
    /\ UNCHANGED storeVars
    /\ UNCHANGED enrichVars
    /\ UNCHANGED cacheVars
    /\ RunPatients(<<>>, EmptyTable, None, None, "read")

\* A click in the traitements table.
SelectTraitement ==
    /\ level = "traitements"
    /\ UNCHANGED storeVars
    /\ UNCHANGED enrichVars
    /\ UNCHANGED cacheVars
    /\ \E shown \in {display_t(list_traitements(traitements, current_patient_id, NoStatut))} :
          \E rows \in Clicks(Len(shown)) :
             /\ rows # traitements_table.rows
             /\ RunTraitements(current_patient_id, [data |-> shown, rows |-> rows],
                               current_traitement_id, "read")

\* st.number_input(label, min_value, max_value, value) in a form: the values
\* the widget can hold at the submit when `typed` was entered.  An entry
\* within the limits is the value.  An entry outside them is not taken: the
\* widget keeps the value it had, or the nearest limit (by the arrows); the
\* submit button is not disabled by it and nothing is raised.
\* (number_input_unchecked: a field without limits.)
number_input_unchecked(min_value, max_value, value, typed) == {typed}
number_input(min_value, max_value, value, typed) ==
    IF min_value <= typed /\ typed <= max_value
    THEN {typed}
    ELSE {value, IF typed < min_value THEN min_value ELSE max_value}

\* st.number_input(label, min_value, value): no max_value.
number_input_min(min_value, value, typed) ==
    IF min_value <= typed THEN {typed} ELSE {value, min_value}

\* INSERT INTO traitements (patient_id, ..., date_debut, nb_seances_prevues,
\* tarif_par_seance, ...): statut takes its DEFAULT; the foreign key must hold.
SqlInsertTraitement(T, P, id, pid, date_debut, nb, tarif) ==
    IF ForeignKeys /\ pid \notin DOMAIN P
    THEN T
    ELSE PutRow(T, id, [patient_id |-> pid, date_debut |-> date_debut,
                        nb_seances_prevues |-> nb, tarif_par_seance |-> tarif,
                        statut |-> "En cours"])

\* form_add_traitement_simple, "Enregistrer"
AddTraitement(D) ==
    /\ Rendered("traitements")
    /\ sqlite_sequence.traitements < D.maxT
    /\ UNCHANGED enrichVars
    /\ UNCHANGED cacheVars
    /\ \E date_debut \in D.dates, typed_nb \in D.nbs, typed_tarif \in D.tarifs :
          \E nb \in number_input(1, 100, 10, typed_nb),
             tarif \in number_input_min(0, 0, typed_tarif) :
          LET id == Autoincrement(traitements, sqlite_sequence.traitements)
          IN /\ traitements' = SqlInsertTraitement(traitements, patients, id,
                                                  current_patient_id, date_debut, nb, tarif)
             /\ sqlite_sequence' = [sqlite_sequence EXCEPT !.traitements = id]
             /\ UNCHANGED <<patients, seances>>
             /\ RunTraitements(current_patient_id, traitements_table,
                               current_traitement_id, "added")

\* UPDATE traitements SET date_debut=?, nb_seances_prevues=?, tarif_par_seance=?,
\* statut=? WHERE id=?
SqlUpdateTraitement(T, tid, date_debut, nb, tarif, statut) ==
    IF tid \notin DOMAIN T
    THEN T
    ELSE PutRow(T, tid, [patient_id |-> T[tid].patient_id, date_debut |-> date_debut,
                         nb_seances_prevues |-> nb, tarif_par_seance |-> tarif,
                         statut |-> statut])

\* form_edit_traitement_simple, "Mettre a jour"
UpdateTraitement(D) ==
    /\ Rendered("traitements")
    /\ HasRow(list_traitements(traitements, current_patient_id, NoStatut), current_traitement_id)
    /\ UNCHANGED enrichVars
    /\ UNCHANGED cacheVars
    /\ \E date_debut \in D.dates, typed_nb \in D.nbs, typed_tarif \in D.tarifs,
          statut \in D.statuts :
          \E nb \in number_input(1, 100, traitements[current_traitement_id].nb_seances_prevues,
                                  typed_nb),
             tarif \in number_input_min(0, traitements[current_traitement_id].tarif_par_seance,
                                        typed_tarif) :
          /\ traitements' = SqlUpdateTraitement(traitements, current_traitement_id,
                                                date_debut, nb, tarif, statut)
          /\ UNCHANGED <<patients, seances, sqlite_sequence>>
          /\ RunTraitements(current_patient_id, traitements_table,
                            current_traitement_id, "updated")

\* DELETE FROM traitements WHERE id=?, with the cascade of the schema.
\* (DeleteTraitementAndAllSeances: a cascade that is not restricted to tid.)
DeleteTraitementAndAllSeances(T, S, tid) ==
    [traitements |-> DeleteRow(T, tid), seances |-> <<>>]
SqlDeleteTraitement(T, S, tid) ==
    LET T2 == DeleteRow(T, tid)
    IN [traitements |-> T2, seances |-> CascadeSeances(S, T2)]

\* form_edit_traitement_simple, "Supprimer"
\* (DeleteTraitementThenPatients: the handler ending with _go_to("patients").)
DeleteTraitementThenPatients ==
    /\ Rendered("traitements")
    /\ HasRow(list_traitements(traitements, current_patient_id, NoStatut), current_traitement_id)
    /\ UNCHANGED enrichVars
    /\ UNCHANGED cacheVars
    /\ LET db == SqlDeleteTraitement(traitements, seances, current_traitement_id)
       IN /\ traitements' = db.traitements
          /\ seances' = db.seances
    /\ UNCHANGED <<patients, sqlite_sequence>>
    /\ RunPatients(<<>>, EmptyTable, None, None, "deleted")
DeleteTraitement ==
    /\ Rendered("traitements")
    /\ HasRow(list_traitements(traitements, current_patient_id, NoStatut), current_traitement_id)
    /\ UNCHANGED enrichVars
    /\ UNCHANGED cacheVars
    /\ LET db == SqlDeleteTraitement(traitements, seances, current_traitement_id)
       IN /\ traitements' = db.traitements
          /\ seances' = db.seances
    /\ UNCHANGED <<patients, sqlite_sequence>>
    /\ RunTraitements(current_patient_id, traitements_table, current_traitement_id, "deleted")

\* "Ouvrir les seances du traitement": _go_to("seances", patient_id=pid, traitement_id=tid)
OpenSeances ==
    /\ Rendered("traitements")
    /\ HasRow(list_traitements(traitements, current_patient_id, NoStatut), current_traitement_id)
    /\ UNCHANGED storeVars
    /\ UNCHANGED enrichVars
    /\ UNCHANGED cacheVars
    /\ RunSeances(current_patient_id, current_traitement_id, EmptyTable,
                  current_seance_id, "read")

\* ---- seances ----
\* (SeancesToPatients: the back button without patient_id=pid; the test of pid
\* in render_traitements then sends to the patients page.)
SeancesToPatients ==
    /\ level = "seances"
    /\ UNCHANGED storeVars
    /\ UNCHANGED enrichVars
    /\ UNCHANGED cacheVars
    /\ RunTraitements(None, EmptyTable, None, "read")

\* "Retour aux traitements": _go_to("traitements", patient_id=pid)
SeancesToTraitements ==
    /\ level = "seances"
    /\ UNCHANGED storeVars
    /\ UNCHANGED enrichVars
    /\ UNCHANGED cacheVars
    /\ RunTraitements(current_patient_id, EmptyTable, None, "read")

\* A click in the seances table.
SelectSeance ==
    /\ level = "seances"
    /\ UNCHANGED storeVars
    /\ UNCHANGED enrichVars
    /\ UNCHANGED cacheVars
    /\ \E shown \in {display_s(list_seances(seances, current_traitement_id, NoDate, NoDate))} :
          \E rows \in Clicks(Len(shown)) :
             /\ rows # seances_table.rows
             /\ RunSeances(current_patient_id, current_traitement_id,
                           [data |-> shown, rows |-> rows], current_seance_id, "read")

\* INSERT INTO seances (traitement_id, date, heure, duree_minutes, ...):
\* effectuee and payee take their DEFAULT 0; the foreign key must hold.
\* (SqlInsertSeanceDone: effectuee with a DEFAULT of 1.)
SqlInsertSeanceDone(S, T, id, tid, date, heure, duree) ==
    IF ForeignKeys /\ tid \notin DOMAIN T
    THEN S
    ELSE PutRow(S, id, [traitement_id |-> tid, date |-> date, heure |-> heure,
                        duree_minutes |-> duree,
                        effectuee |-> 1, payee |-> 0])
SqlInsertSeance(S, T, id, tid, date, heure, duree) ==
    IF ForeignKeys /\ tid \notin DOMAIN T
    THEN S
    ELSE PutRow(S, id, [traitement_id |-> tid, date |-> date, heure |-> heure,
                        duree_minutes |-> duree,
                        effectuee |-> 0, payee |-> 0])

\* form_add_seance_simple, "Enregistrer"
AddSeance(D) ==
    /\ Rendered("seances")
    /\ sqlite_sequence.seances < D.maxS
    /\ UNCHANGED enrichVars
    /\ UNCHANGED cacheVars
    /\ \E date \in D.dates, heure \in D.heures, typed \in D.durees :
          \E duree \in number_input(15, 240, 45, typed) :
          LET id == Autoincrement(seances, sqlite_sequence.seances)
          IN /\ seances' = SqlInsertSeance(seances, traitements, id, current_traitement_id,
                                           date, heure, duree)
             /\ sqlite_sequence' = [sqlite_sequence EXCEPT !.seances = id]
             /\ UNCHANGED <<patients, traitements>>
             /\ RunSeances(current_patient_id, current_traitement_id, seances_table,
                           current_seance_id, "added")

\* UPDATE seances SET date=?, heure=?, duree_minutes=?, cout=?, effectuee=?,
\* payee=?, notes=? WHERE id=?
\* (SqlUpdateSeanceReowned: the id of the seance written to traitement_id too.)
SqlUpdateSeanceReowned(S, sid, date, heure, duree, effectuee, payee) ==
    IF sid \notin DOMAIN S
    THEN S
    ELSE PutRow(S, sid, [traitement_id |-> sid, date |-> date,
                         heure |-> heure, duree_minutes |-> duree,
                         effectuee |-> effectuee, payee |-> payee])
\* (SqlUpdateSeancePaidIsDone: a seance marked payee is marked effectuee too.)
SqlUpdateSeancePaidIsDone(S, sid, date, heure, duree, effectuee, payee) ==
    IF sid \notin DOMAIN S
    THEN S
    ELSE PutRow(S, sid, [traitement_id |-> S[sid].traitement_id, date |-> date,
                         heure |-> heure, duree_minutes |-> duree,
                         effectuee |-> IF payee = 1 THEN 1 ELSE effectuee,
                         payee |-> payee])
SqlUpdateSeance(S, sid, date, heure, duree, effectuee, payee) ==
    IF sid \notin DOMAIN S
    THEN S
    ELSE PutRow(S, sid, [traitement_id |-> S[sid].traitement_id, date |-> date,
                         heure |-> heure, duree_minutes |-> duree,
                         effectuee |-> effectuee, payee |-> payee])

\* form_edit_seance_simple, "Mettre a jour"
UpdateSeance(D) ==
    /\ Rendered("seances")
    /\ HasRow(list_seances(seances, current_traitement_id, NoDate, NoDate), current_seance_id)
    /\ UNCHANGED enrichVars
    /\ UNCHANGED cacheVars
    /\ \E date \in D.dates, heure \in D.heures, typed \in D.durees,
          effectuee \in D.flags, payee \in D.flags :
          \E duree \in number_input(15, 240, seances[current_seance_id].duree_minutes, typed) :
          /\ seances' = SqlUpdateSeance(seances, current_seance_id, date, heure, duree,
                                        effectuee, payee)
          /\ UNCHANGED <<patients, traitements, sqlite_sequence>>
          /\ RunSeances(current_patient_id, current_traitement_id, seances_table,
                        current_seance_id, "updated")

\* DELETE FROM seances WHERE id=?
SqlDeleteSeance(S, sid) == DeleteRow(S, sid)

\* form_edit_seance_simple, "Supprimer"
DeleteSeance ==
    /\ Rendered("seances")
    /\ HasRow(list_seances(seances, current_traitement_id, NoDate, NoDate), current_seance_id)
    /\ UNCHANGED enrichVars
    /\ UNCHANGED cacheVars
    /\ seances' = SqlDeleteSeance(seances, current_seance_id)
    /\ UNCHANGED <<patients, traitements, sqlite_sequence>>
    /\ RunSeances(current_patient_id, current_traitement_id, seances_table,
                  current_seance_id, "deleted")

\* The values typed and the rows created in a run of Spec.
MainD ==
    [noms |-> {<<"a">>, <<"b">>, <<" ">>, <<>>},
     cins |-> {<<"x">>, <<"y">>},
     prenoms |-> {<<>>},
     telephones |-> {<<>>},
     searches |-> {<<>>, <<"x">>, <<"Y">>},
     dates |-> {1},
     heures |-> {1},
     durees |-> {45},
     nbs |-> {1},
     tarifs |-> {0},
     statuts |-> {"En cours", "Termine"},
     flags |-> {0, 1},
     maxP |-> MaxPatients, maxT |-> MaxTraitements, maxS |-> MaxSeances]

NextView(D) ==
    \/ DashboardToPatients
    \/ PatientsToDashboard
    \/ SelectPatient
    \/ SetSearch(D)
    \/ AddPatient(D)
    \/ UpdatePatient(D)
    \/ DeletePatient
    \/ OpenTraitements
    \/ TraitementsToPatients
    \/ SelectTraitement
    \/ AddTraitement(D)
    \/ UpdateTraitement(D)
    \/ DeleteTraitement
    \/ OpenSeances
    \/ SeancesToTraitements
    \/ SelectSeance
    \/ AddSeance(D)
    \/ UpdateSeance(D)
    \/ DeleteSeance

\* Spec: two patients that differ in nom and cin, searched and selected; at
\* most one traitement and one seance.
Next == NextView(MainD)

Spec == Init /\ [][Next]_vars

\* SpecPatients: the events of the patients page and the way to the
\* traitements page and back, with the values of Spec.
NextPatients ==
    \/ DashboardToPatients
    \/ PatientsToDashboard
    \/ SelectPatient
    \/ SetSearch(MainD)
    \/ AddPatient(MainD)
    \/ UpdatePatient(MainD)
    \/ DeletePatient
    \/ OpenTraitements
    \/ TraitementsToPatients

SpecPatients == Init /\ [][NextPatients]_vars

\* SpecStore: the same events on a store of one patient with several
\* traitements and seances, every column but the owner taking one value.
StoreD ==
    [noms |-> {<<"a">>, <<" ">>},
     cins |-> {<<"x">>},
     prenoms |-> {<<>>},
     telephones |-> {<<>>},
     searches |-> {<<>>, <<"x">>},
     dates |-> {1},
     heures |-> {1},
     durees |-> {45},
     nbs |-> {1},
     tarifs |-> {0},
     statuts |-> {"En cours"},
     flags |-> {0},
     maxP |-> StorePatients, maxT |-> StoreTraitements, maxS |-> StoreSeances]

NextStore == NextView(StoreD)

SpecStore == Init /\ [][NextStore]_vars

\* SpecSeances: one patient and one traitement, and the durations typed in
\* the seance forms: the limits, their neighbours, the default and 10.
SeancesRows == 1

SeancesD ==
    [noms |-> {<<"a">>},
     cins |-> {<<"x">>},
     prenoms |-> {<<>>},
     telephones |-> {<<>>},
     searches |-> {<<>>, <<"x">>},
     dates |-> {1},
     heures |-> {1},
     durees |-> {10, 14, 15, 45, 240, 241},
     nbs |-> {1},
     tarifs |-> {0},
     statuts |-> {"En cours"},
     flags |-> {0, 1},
     maxP |-> 1, maxT |-> 1, maxS |-> SeancesRows]

NextSeances == NextView(SeancesD)

SpecSeances == Init /\ [][NextSeances]_vars

\* SpecTraitements: one patient, and the numbers typed in the traitement
\* forms: the limits of "Nombre de seances prevues", their neighbours and the
\* default, and tarifs on both sides of 0.
TraitementsRows == 1

TraitementsD ==
    [noms |-> {<<"a">>},
     cins |-> {<<"x">>},
     prenoms |-> {<<>>},
     telephones |-> {<<>>},
     searches |-> {<<>>, <<"x">>},
     dates |-> {1},
     heures |-> {1},
     durees |-> {45},
     nbs |-> {-1, 0, 1, 10, 100, 101},
     tarifs |-> {-1, 0, 5},
     statuts |-> {"En cours"},
     flags |-> {0},
     maxP |-> 1, maxT |-> TraitementsRows, maxS |-> 1]

NextTraitements == NextView(TraitementsD)

SpecTraitements == Init /\ [][NextTraitements]_vars

\* SpecOwners: up to OwnerRows patients and traitements, so that a traitement
\* has several patients and a seance several traitements it could belong to.
OwnerRows == 2
OwnerSeances == 1

OwnersD ==
    [noms |-> {<<"a">>},
     cins |-> {<<"x">>},
     prenoms |-> {<<>>},
     telephones |-> {<<>>},
     searches |-> {<<>>, <<"x">>},
     dates |-> {1},
     heures |-> {1},
     durees |-> {45},
     nbs |-> {1},
     tarifs |-> {0},
     statuts |-> {"En cours"},
     flags |-> {0},
     maxP |-> OwnerRows, maxT |-> OwnerRows, maxS |-> OwnerSeances]

NextOwners == NextView(OwnersD)

SpecOwners == Init /\ [][NextOwners]_vars

(***************************************************************************)
(* progression_traitement(t_df, s_df).  A cell of a numeric column is <<n>> *)
(* or NULL.  pd.DataFrame makes a column that holds a number float64, its   *)
(* NULLs NaN, and a column of NULLs only object, its NULLs None.            *)
(***************************************************************************)
NULL == <<>>
NaN == <<>>
Num(n) == <<n>>

RECURSIVE GCD(_, _)
GCD(a, b) == IF b = 0 THEN a ELSE GCD(b, a % b)

\* The float n / d (d > 0, n >= 0), as the fraction in lowest terms.
Ratio(n, d) == LET g == GCD(n, d) IN <<n \div g, d \div g>>
Zero == <<0, 1>>

\* s_df.groupby("traitement_id")[col].sum().get(i, 0): NaN cells are skipped.
RECURSIVE GroupSum(_, _, _)
GroupSum(df, col, i) ==
    IF df = <<>> THEN 0
    ELSE (IF Head(df).traitement_id = i /\ Head(df)[col] # NULL THEN Head(df)[col][1] ELSE 0)
         + GroupSum(Tail(df), col, i)

\* The column holds None (dtype object) and not NaN.
ObjectColumn(df, col) == \A k \in 1..Len(df) : df[k][col] = NULL

\* Line 340-343: done / planned if planned (is truthy) else 0.  None and 0 are
\* falsy; NaN is truthy and done / NaN is NaN.
\* (ProgressUnguarded: the division without the test; ProgressDoneOverPaid: the
\* operands exchanged; ProgressClamped: the ratio held at 1.)
ProgressClamped(df, r, done) ==
    IF r.nb_seances_prevues = NULL
    THEN (IF ObjectColumn(df, "nb_seances_prevues") THEN Zero ELSE NaN)
    ELSE IF r.nb_seances_prevues[1] = 0 THEN Zero
         ELSE IF done > r.nb_seances_prevues[1] THEN <<1, 1>>
              ELSE Ratio(done, r.nb_seances_prevues[1])
ProgressUnguarded(df, r, done) ==
    IF r.nb_seances_prevues = NULL \/ r.nb_seances_prevues[1] = 0 THEN NaN
    ELSE Ratio(done, r.nb_seances_prevues[1])
ProgressDoneOverPaid(df, r, done) ==
    IF r.nb_seances_prevues = NULL THEN NaN
    ELSE IF done = 0 THEN Zero ELSE Ratio(r.nb_seances_prevues[1], done)
Progress(df, r, done) ==
    IF r.nb_seances_prevues = NULL
    THEN (IF ObjectColumn(df, "nb_seances_prevues") THEN Zero ELSE NaN)
    ELSE IF r.nb_seances_prevues[1] = 0 THEN Zero
         ELSE Ratio(done, r.nb_seances_prevues[1])

\* Line 344: (done - paid) * tarif, NaN where the tarif is NaN.
\* (MontantDuClamped: the difference floored at 0.)
MontantDuClamped(r, done, paid) ==
    IF r.tarif_par_seance = NULL THEN NaN
    ELSE Num(IF done < paid THEN 0 ELSE (done - paid) * r.tarif_par_seance[1])
MontantDu(r, done, paid) ==
    IF r.tarif_par_seance = NULL THEN NaN
    ELSE Num((done - paid) * r.tarif_par_seance[1])

\* Lines 335-339: the two counts of the treatment i.
\* (CountAllSeances: the sum without the groupby.)
CountAllSeances(s, col, i) == GroupSum(s, col, 1) + GroupSum(s, col, 2)
SeancesCount(s, col, i) == GroupSum(s, col, i)

\* (EnrichedRowByCost: montant_du as the sum of the cout of the seances.)
EnrichedRowByCost(t, s, k) ==
    LET r == t[k]
        done == SeancesCount(s, "effectuee", r.id)
        paid == SeancesCount(s, "payee", r.id)
    IN [id |-> r.id, nb_seances_prevues |-> r.nb_seances_prevues,
        tarif_par_seance |-> r.tarif_par_seance,
        seances_effectuees |-> done, seances_payees |-> paid,
        progress |-> Progress(t, r, done),
        montant_du |-> Num(GroupSum(s, "cout", r.id))]
EnrichedRow(t, s, k) ==
    LET r == t[k]
        done == SeancesCount(s, "effectuee", r.id)
        paid == SeancesCount(s, "payee", r.id)
    IN [id |-> r.id, nb_seances_prevues |-> r.nb_seances_prevues,
        tarif_par_seance |-> r.tarif_par_seance,
        seances_effectuees |-> done, seances_payees |-> paid,
        progress |-> Progress(t, r, done),
        montant_du |-> MontantDu(r, done, paid)]

\* What the call returns: the frame, or the exception it raises (int * None
\* on an object column is a TypeError).
progression_traitement(t, s) ==
    IF t = <<>>
    THEN [called |-> TRUE, raised |-> "", rows |-> t]
    ELSE IF ObjectColumn(t, "tarif_par_seance")
         THEN [called |-> TRUE, raised |-> "TypeError", rows |-> <<>>]
         ELSE [called |-> TRUE, raised |-> "", rows |-> [k \in 1..Len(t) |-> EnrichedRow(t, s, k)]]

\* The caller's frame after the call: line 337 rebinds t_df to a copy before
\* the columns are added, so the caller's frame is as it was.
\* (FrameWithoutCopy: the columns added to the frame passed.)
FrameWithoutCopy(t, s) ==
    IF progression_traitement(t, s).raised = "" THEN progression_traitement(t, s).rows ELSE t
FrameAfterCall(t, s) == t

\* A call of progression_traitement on the frames held.
ApplyEnrich ==
    /\ result' = progression_traitement(t_df, s_df)
    /\ t_df' = FrameAfterCall(t_df, s_df)
    /\ s_df' = s_df
    /\ UNCHANGED storeVars
    /\ UNCHANGED viewVars
    /\ UNCHANGED cacheVars

\* The frames of SpecEnrich.  Treatment frames hold the treatments 1..n in
\* list_traitements' order (id DESC at equal dates); a session row belongs to
\* treatment 1 or 2, in the frame or not.  A flag column with a NULL holds a
\* number too.
Cells(values) == {NULL} \cup {Num(v) : v \in values}
TRows(i) == [id : {i}, nb_seances_prevues : Cells({0, 2}), tarif_par_seance : Cells({0, 3})]
TFrames == {<<>>} \cup {<<r>> : r \in TRows(1)} \cup {<<r2, r1>> : r2 \in TRows(2), r1 \in TRows(1)}
SRows == [traitement_id : {1, 2}, effectuee : Cells({0, 1}), payee : Cells({0, 1})]
SFrames == UNION {[1..n -> SRows] : n \in 0..MaxRows}
MixedColumn(df, col) == ObjectColumn(df, col) => df = <<>>

InitEnrich ==
    /\ patients = <<>>
    /\ traitements = <<>>
    /\ seances = <<>>
    /\ sqlite_sequence = [patients |-> 0, traitements |-> 0, seances |-> 0]
    /\ level = "dashboard"
    /\ current_patient_id = None
    /\ current_traitement_id = None
    /\ current_seance_id = None
    /\ search = <<>>
    /\ patients_table = EmptyTable
    /\ traitements_table = EmptyTable
    /\ seances_table = EmptyTable
    /\ last = [event |-> "read", raised |-> "", removed |-> 0]
    /\ t_df \in TFrames
    /\ s_df \in {f \in SFrames : MixedColumn(f, "effectuee") /\ MixedColumn(f, "payee")}
    /\ result = NotCalled
    /\ cache = <<>>
    /\ now = 0
    /\ served = NoCall

NextEnrich == ApplyEnrich

SpecEnrich == InitEnrich /\ [][NextEnrich]_vars

\* SpecFrames: the frames of a store written by the forms, which write
\* int(nb_prev) of 1 to 100, float(tarif), float(cout), int(effectuee) and
\* int(payee): no cell is NULL.  The seances frame has the column cout.
FrameRows == 2
FormTRows(i) == [id : {i}, nb_seances_prevues : {Num(1), Num(2)},
                 tarif_par_seance : {Num(0), Num(3)}]
FormTFrames == {<<>>} \cup {<<r>> : r \in FormTRows(1)}
                      \cup {<<r2, r1>> : r2 \in FormTRows(2), r1 \in FormTRows(1)}
FormSRows == [traitement_id : {1, 2}, effectuee : {Num(0), Num(1)},
              payee : {Num(0), Num(1)}, cout : {Num(0), Num(5)}]
FormSFrames == UNION {[1..n -> FormSRows] : n \in 0..FrameRows}

InitFrames ==
    /\ patients = <<>>
    /\ traitements = <<>>
    /\ seances = <<>>
    /\ sqlite_sequence = [patients |-> 0, traitements |-> 0, seances |-> 0]
    /\ level = "dashboard"
    /\ current_patient_id = None
    /\ current_traitement_id = None
    /\ current_seance_id = None
    /\ search = <<>>
    /\ patients_table = EmptyTable
    /\ traitements_table = EmptyTable
    /\ seances_table = EmptyTable
    /\ last = [event |-> "read", raised |-> "", removed |-> 0]
    /\ t_df \in FormTFrames
    /\ s_df \in FormSFrames
    /\ result = NotCalled
    /\ cache = <<>>
    /\ now = 0
    /\ served = NoCall

NextFrames == ApplyEnrich

SpecFrames == InitFrames /\ [][NextFrames]_vars

\* The frames pd.DataFrame makes of the rows read from the store, and the call
\* on them: progression_traitement(list_traitements(), list_seances()).
TraitementsFrame(df) ==
    [k \in 1..Len(df) |-> [id |-> df[k].id,
                           nb_seances_prevues |-> Num(df[k].nb_seances_prevues),
                           tarif_par_seance |-> Num(df[k].tarif_par_seance)]]
SeancesFrame(df) ==
    [k \in 1..Len(df) |-> [traitement_id |-> df[k].traitement_id,
                           effectuee |-> Num(df[k].effectuee),
                           payee |-> Num(df[k].payee)]]
EnrichStore(T, S) ==
    progression_traitement(TraitementsFrame(list_traitements(T, None, NoStatut)),
                           SeancesFrame(list_seances(S, None, NoDate, NoDate)))

\* SpecFigures: one patient, two traitements of one planned seance with two
\* tarifs, seances with their flags set and cleared.
FigureSeances == 2      \* seances ever created in a run of SpecFigures
FiguresD ==
    [noms |-> {<<"a">>},
     cins |-> {<<"x">>},
     prenoms |-> {<<>>},
     telephones |-> {<<>>},
     searches |-> {<<>>},
     dates |-> {1},
     heures |-> {1},
     durees |-> {45},
     nbs |-> {1},
     tarifs |-> {0, 3},
     statuts |-> {"En cours"},
     flags |-> {0, 1},
     maxP |-> 1, maxT |-> 2, maxS |-> FigureSeances]

\* The events of the view but the typing of a search.
NextFigures ==
    \/ DashboardToPatients
    \/ PatientsToDashboard
    \/ SelectPatient
    \/ AddPatient(FiguresD)
    \/ UpdatePatient(FiguresD)
    \/ DeletePatient
    \/ OpenTraitements
    \/ TraitementsToPatients
    \/ SelectTraitement
    \/ AddTraitement(FiguresD)
    \/ UpdateTraitement(FiguresD)
    \/ DeleteTraitement
    \/ OpenSeances
    \/ SeancesToTraitements
    \/ SelectSeance
    \/ AddSeance(FiguresD)
    \/ UpdateSeance(FiguresD)
    \/ DeleteSeance

SpecFigures == Init /\ [][NextFigures]_vars

\* SpecScenario: the events the scenario of the specification is made of
\* (create a patient, a traitement of 10 planned seances at 200 per seance
\* under it, seances under that, and update them), with its values.
ScenarioD ==
    [noms |-> {<<"a">>},
     cins |-> {<<"x">>},
     prenoms |-> {<<>>},
     telephones |-> {<<>>},
     searches |-> {<<>>},
     dates |-> {1},
     heures |-> {1},
     durees |-> {45},
     nbs |-> {10},
     tarifs |-> {200},
     statuts |-> {"En cours"},
     flags |-> {0, 1},
     maxP |-> 1, maxT |-> 1, maxS |-> ScenarioSeances]

NextScenario ==
    \/ DashboardToPatients
    \/ AddPatient(ScenarioD)
    \/ SelectPatient
    \/ OpenTraitements
    \/ AddTraitement(ScenarioD)
    \/ SelectTraitement
    \/ OpenSeances
    \/ AddSeance(ScenarioD)
    \/ SelectSeance
    \/ UpdateSeance(ScenarioD)

SpecScenario == Init /\ [][NextScenario]_vars


(***************************************************************************)
(* The data layer: list_* behind @st.cache_data(ttl=10), and the writes.   *)
(* A step is a call of a list_* function, a write of the application        *)
(* (run_exec of one statement, then clear_caches()), the clock moving, or   *)
(* a statement on the database file by another process, which clears        *)
(* nothing here.                                                            *)
(***************************************************************************)
TTL == 10
MaxTicks == 1           \* moves of the clock in a run of SpecCache

\* The key of a memoized call: the function and its arguments.
Key(kind, srch, id) == [kind |-> kind, search |-> srch, id |-> id]

\* What the function computes on the store.
Query(key, P, T, S) ==
    CASE key.kind = "patients" -> list_patients(P, key.search)
      [] key.kind = "traitements" -> list_traitements(T, key.id, NoStatut)
      [] key.kind = "seances" -> list_seances(S, key.id, NoDate, NoDate)

\* The entry of key is served at time t: it exists and is younger than the ttl.
\* (FreshAtTTL: an entry that is still served when its age is the ttl.)
FreshAtTTL(c, key, t) == key \in DOMAIN c /\ t - c[key].at <= TTL
Fresh(c, key, t) == key \in DOMAIN c /\ t - c[key].at < TTL

\* clear_caches(): list_patients.clear(), list_traitements.clear(), list_seances.clear()
\* (ClearTraitementsAndSeances: list_patients.clear() left out.)
ClearTraitementsAndSeances(c) == [k \in {x \in DOMAIN c : x.kind # "patients"} |-> c[k]]
clear_caches(c) == [k \in {} |-> c[k]]

\* The stores one statement of the application makes of the store.
Db(P, T, S, seq) == [patients |-> P, traitements |-> T, seances |-> S, sqlite_sequence |-> seq]
Statements(D) ==
    LET P == patients
        T == traitements
        S == seances
        seq == sqlite_sequence
        texts == {Strip(n) : n \in D.noms} \ {<<>>}
    IN  {[op |-> "insert patients",
          db |-> Db(PutRow(P, Autoincrement(P, seq.patients),
                           [nom |-> nom, prenom |-> Strip(prenom),
                            telephone |-> Strip(telephone), cin |-> cin]), T, S,
                    [seq EXCEPT !.patients = Autoincrement(P, @)])] :
            nom \in {n \in texts : seq.patients < D.maxP}, prenom \in D.prenoms,
            telephone \in D.telephones, cin \in D.cins}
        \cup
        {[op |-> "update patients",
          db |-> Db(PutRow(P, p, [nom |-> nom, prenom |-> Strip(prenom),
                                  telephone |-> Strip(telephone), cin |-> cin]), T, S, seq)] :
            p \in DOMAIN P, nom \in texts, prenom \in D.prenoms,
            telephone \in D.telephones, cin \in D.cins}
        \cup
        {[op |-> "delete patients",
          db |-> LET d == SqlDeletePatient(P, T, S, p)
                 IN Db(d.patients, d.traitements, d.seances, seq)] : p \in DOMAIN P}
        \cup
        {[op |-> "insert traitements",
          db |-> Db(P, SqlInsertTraitement(T, P, Autoincrement(T, seq.traitements), p, date,
                                           nb, tarif), S,
                    [seq EXCEPT !.traitements = Autoincrement(T, @)])] :
            p \in {x \in DOMAIN P : seq.traitements < D.maxT},
            date \in D.dates,
            nb \in UNION {number_input(1, 100, 10, typed) : typed \in D.nbs},
            tarif \in UNION {number_input_min(0, 0, typed) : typed \in D.tarifs}}
        \cup
        UNION {{[op |-> "update traitements",
                 db |-> Db(P, SqlUpdateTraitement(T, t, date, nb, tarif, statut), S, seq)] :
                   date \in D.dates, statut \in D.statuts,
                   nb \in UNION {number_input(1, 100, T[t].nb_seances_prevues, typed) :
                                    typed \in D.nbs},
                   tarif \in UNION {number_input_min(0, T[t].tarif_par_seance, typed) :
                                       typed \in D.tarifs}} :
               t \in DOMAIN T}
        \cup
        {[op |-> "delete traitements",
          db |-> LET d == SqlDeleteTraitement(T, S, t)
                 IN Db(P, d.traitements, d.seances, seq)] : t \in DOMAIN T}
        \cup
        {[op |-> "insert seances",
          db |-> Db(P, T, SqlInsertSeance(S, T, Autoincrement(S, seq.seances), t, date, heure, duree),
                    [seq EXCEPT !.seances = Autoincrement(S, @)])] :
            t \in {x \in DOMAIN T : seq.seances < D.maxS}, date \in D.dates,
            heure \in D.heures,
            duree \in UNION {number_input(15, 240, 45, typed) : typed \in D.durees}}
        \cup
        UNION {{[op |-> "update seances",
                 db |-> Db(P, T, SqlUpdateSeance(S, x, date, heure, duree, e, f), seq)] :
                   date \in D.dates, heure \in D.heures, e \in D.flags, f \in D.flags,
                   duree \in UNION {number_input(15, 240, S[x].duree_minutes, typed) :
                                       typed \in D.durees}} :
               x \in DOMAIN S}
        \cup
        {[op |-> "delete seances",
          db |-> Db(P, T, SqlDeleteSeance(S, x), seq)] : x \in DOMAIN S}

\* A call of list_patients, list_traitements or list_seances.
CachedCall(D) ==
    /\ UNCHANGED <<storeVars, viewVars, enrichVars, now>>
    /\ \E key \in {Key("patients", srch, None) : srch \in D.searches}
                 \cup {Key("traitements", <<>>, None), Key("seances", <<>>, None)} :
          IF Fresh(cache, key, now)
          THEN /\ cache' = cache
               /\ served' = [op |-> "read", key |-> key, rows |-> cache[key].rows, hit |-> TRUE]
          ELSE \E rows \in {Query(key, patients, traitements, seances)} :
                  /\ cache' = PutRow(cache, key, [rows |-> rows, at |-> now])
                  /\ served' = [op |-> "read", key |-> key, rows |-> rows, hit |-> FALSE]

\* A write of the application: run_exec(statement), then clear_caches().
\* (RunExecOnly: run_exec(statement) without the clear_caches() after it.)
RunExecOnly(D) ==
    /\ UNCHANGED <<viewVars, enrichVars, now, cache>>
    /\ \E st \in Statements(D) :
          /\ patients' = st.db.patients
          /\ traitements' = st.db.traitements
          /\ seances' = st.db.seances
          /\ sqlite_sequence' = st.db.sqlite_sequence
          /\ served' = [op |-> st.op, key |-> NoKey, rows |-> <<>>, hit |-> FALSE]
AppWrite(D) ==
    /\ UNCHANGED <<viewVars, enrichVars, now>>
    /\ \E st \in Statements(D) :
          /\ patients' = st.db.patients
          /\ traitements' = st.db.traitements
          /\ seances' = st.db.seances
          /\ sqlite_sequence' = st.db.sqlite_sequence
          /\ cache' = clear_caches(cache)
          /\ served' = [op |-> st.op, key |-> NoKey, rows |-> <<>>, hit |-> FALSE]

\* A statement on the database file by another process.
ExternalWrite(D) ==
    /\ UNCHANGED <<viewVars, enrichVars, now, cache>>
    /\ \E st \in Statements(D) :
          /\ patients' = st.db.patients
          /\ traitements' = st.db.traitements
          /\ seances' = st.db.seances
          /\ sqlite_sequence' = st.db.sqlite_sequence
          /\ served' = [op |-> "external", key |-> NoKey, rows |-> <<>>, hit |-> FALSE]

\* The clock moves by a little less than the ttl or by the ttl.
Tick ==
    /\ UNCHANGED <<storeVars, viewVars, enrichVars, cache>>
    /\ \E d \in {TTL - 1, TTL} :
          /\ now + d <= MaxTicks * TTL
          /\ now' = now + d
          /\ served' = [op |-> "tick", key |-> NoKey, rows |-> <<>>, hit |-> FALSE]

\* SpecCache: one row a table; the search "y" finds no patient, the empty
\* search finds them all.
CacheD ==
    [noms |-> {<<"a">>},
     cins |-> {<<"x">>},
     prenoms |-> {<<>>},
     telephones |-> {<<>>},
     searches |-> {<<>>, <<"y">>},
     dates |-> {1},
     heures |-> {1},
     durees |-> {45},
     nbs |-> {1},
     tarifs |-> {0},
     statuts |-> {"En cours"},
     flags |-> {0},
     maxP |-> 1, maxT |-> 1, maxS |-> 1]

NextCache ==
    \/ CachedCall(CacheD)
    \/ AppWrite(CacheD)
    \/ ExternalWrite(CacheD)
    \/ Tick

SpecCache == Init /\ [][NextCache]_vars

\* SpecSession: the data layer with this session as the only writer.
NextSession ==
    \/ CachedCall(CacheD)
    \/ AppWrite(CacheD)
    \/ Tick

SpecSession == Init /\ [][NextSession]_vars

(***************************************************************************)
(* A form of the patients page on a row the store has lost.  The run that  *)
(* handles "Mettre a jour" or "Supprimer" calls list_patients first; while *)
(* the cache serves a frame read before another process deleted the row,   *)
(* the form is rendered for that row and its statement names an id that    *)
(* is not in the store.                                                    *)
(***************************************************************************)
\* UPDATE patients SET nom=?, ..., cin=? WHERE id=?: no row, no change.
SqlUpdatePatient(P, pid, nom, prenom, telephone, cin) ==
    IF pid \notin DOMAIN P
    THEN P
    ELSE PutRow(P, pid, [nom |-> nom, prenom |-> prenom, telephone |-> telephone,
                         cin |-> cin])

\* render_patients with a submit button of form_edit_patient_simple pressed:
\* df = list_patients(q), row = df[df["id"] == pid], run_exec(statement),
\* clear_caches(), st.success, and the rerun's list_patients(q).
PatientFormWrite(D) ==
    /\ UNCHANGED <<enrichVars, now, sqlite_sequence>>
    /\ UNCHANGED <<level, current_patient_id, current_traitement_id, current_seance_id,
                   search, patients_table, traitements_table, seances_table>>
    /\ \E srch \in D.searches :
          \E key \in {Key("patients", srch, None)} :
             \E df \in {IF Fresh(cache, key, now)
                         THEN cache[key].rows
                         ELSE Query(key, patients, traitements, seances)} :
                \E pid \in Ids(df) :
                   /\ \/ \E nom \in {Strip(n) : n \in D.noms} \ {<<>>}, prenom \in D.prenoms,
                               telephone \in D.telephones, cin \in D.cins :
                            /\ patients' = SqlUpdatePatient(patients, pid, nom, Strip(prenom),
                                                            Strip(telephone), Strip(cin))
                            /\ UNCHANGED <<traitements, seances>>
                            /\ last' = Outcome("updated", "")
                            /\ served' = [op |-> "update patients",
                                          key |-> Key("patients", srch, pid),
                                          rows |-> df, hit |-> Fresh(cache, key, now)]
                      \/ \E d \in {SqlDeletePatient(patients, traitements, seances, pid)} :
                            /\ patients' = d.patients
                            /\ traitements' = d.traitements
                            /\ seances' = d.seances
                            /\ last' = Outcome("deleted", "")
                            /\ served' = [op |-> "delete patients",
                                          key |-> Key("patients", srch, pid),
                                          rows |-> df, hit |-> Fresh(cache, key, now)]
                   /\ cache' = PutRow(clear_caches(cache), key,
                                      [rows |-> Query(key, patients', traitements', seances'),
                                       at |-> now])

NextStale ==
    \/ CachedCall(CacheD)
    \/ AppWrite(CacheD)
    \/ ExternalWrite(CacheD)
    \/ Tick
    \/ PatientFormWrite(CacheD)

SpecStale == Init /\ [][NextStale]_vars

(***************************************************************************)
(* list_patients, list_traitements and list_seances as functions of the    *)
(* store and of their arguments.  SpecList draws one table of up to        *)
(* ListRows rows (under the rows it refers to) and calls the function of    *)
(* that table with each argument.                                          *)
(***************************************************************************)
ListRows == 2

\* The tables of up to n rows drawn from rows, with the ids 1..n.
TablesOf(rows, n) == UNION {[1..k -> rows] : k \in 0..n}

ListPatientRows ==
    [nom : {<<"a">>, <<"b">>}, prenom : {<<>>, <<"x">>},
     telephone : {<<>>, <<"y">>}, cin : {<<>>, <<"x">>}]
ListTraitementRows ==
    [patient_id : {1, 2}, date_debut : {1, 2}, nb_seances_prevues : {1},
     tarif_par_seance : {0}, statut : {"En cours", "Termine"}]
ListSeanceRows ==
    [traitement_id : {1, 2}, date : {1, 2, 3}, heure : {0, 1}, duree_minutes : {45},
     effectuee : {0}, payee : {0}]

\* The two patients and the two traitements the drawn rows belong to.
ListOwners == [i \in 1..2 |-> [nom |-> <<"a">>, prenom |-> <<>>, telephone |-> <<>>, cin |-> <<>>]]
ListOwnerTraitements ==
    [i \in 1..2 |-> [patient_id |-> i, date_debut |-> 1, nb_seances_prevues |-> 1,
                     tarif_par_seance |-> 0, statut |-> "En cours"]]

\* The arguments of the calls.
ListSearches == {<<>>, <<"a">>, <<"X">>, <<"y">>, <<"_">>, <<"%">>}
ListArgs ==
    [kind : {"patients"}, search : ListSearches, id : {None},
     statut : {NoStatut}, date_min : {NoDate}, date_max : {NoDate}]
    \cup
    [kind : {"traitements"}, search : {<<>>}, id : {None, 1, 2},
     statut : {NoStatut, "En cours", "Termine"}, date_min : {NoDate}, date_max : {NoDate}]
    \cup
    [kind : {"seances"}, search : {<<>>}, id : {None, 1, 2},
     statut : {NoStatut}, date_min : {NoDate, 2}, date_max : {NoDate, 2}]

InitList ==
    /\ \/ /\ patients \in TablesOf(ListPatientRows, ListRows)
          /\ traitements = <<>>
          /\ seances = <<>>
       \/ /\ patients = ListOwners
          /\ traitements \in TablesOf(ListTraitementRows, ListRows)
          /\ seances = <<>>
       \/ /\ patients = ListOwners
          /\ traitements = ListOwnerTraitements
          /\ seances \in TablesOf(ListSeanceRows, ListRows)
    /\ sqlite_sequence = [patients |-> Len(patients), traitements |-> Len(traitements),
                          seances |-> Len(seances)]
    /\ level = "dashboard"
    /\ current_patient_id = None
    /\ current_traitement_id = None
    /\ current_seance_id = None
    /\ search = <<>>
    /\ patients_table = EmptyTable
    /\ traitements_table = EmptyTable
    /\ seances_table = EmptyTable
    /\ last = [event |-> "read", raised |-> "", removed |-> 0]
    /\ t_df = <<>>
    /\ s_df = <<>>
    /\ result = NotCalled
    /\ cache = <<>>
    /\ now = 0
    /\ served = NoCall

\* One call, not served from the cache.
ListCall ==
    /\ UNCHANGED <<storeVars, viewVars, enrichVars, cache, now>>
    /\ \E args \in ListArgs :
          served' = [op |-> "list", key |-> args, hit |-> FALSE,
                     rows |-> CASE args.kind = "patients" ->
                                      list_patients(patients, args.search)
                                [] args.kind = "traitements" ->
                                      list_traitements(traitements, args.id, args.statut)
                                [] args.kind = "seances" ->
                                      list_seances(seances, args.id, args.date_min,
                                                   args.date_max)]

NextList == ListCall

SpecList == InitList /\ [][NextList]_vars

(***************************************************************************)
(* view_manager as a function of st.session_state.  The tests at the top   *)
(* of render_traitements and render_seances are written for session states *)
(* that the buttons of the pages do not produce (a child level with no     *)
(* parent id: "Ouvrir" is disabled without a row, and the back button      *)
(* passes pid).  SpecGuard draws the session state, over a store of up to  *)
(* GuardRows rows a table, and runs the script once with no widget event.  *)
(***************************************************************************)
GuardRows == 2

\* The store with nP patients, nT traitements of patient 1 and nS seances of
\* traitement 1.
GuardPatients(nP) ==
    [i \in 1..nP |-> [nom |-> <<"a">>, prenom |-> <<>>, telephone |-> <<>>, cin |-> <<"x">>]]
GuardTraitements(nP, nT) ==
    [i \in 1..nT |-> SqlInsertTraitement(<<>>, GuardPatients(nP), i, 1, 1, 1, 0)[i]]
GuardSeances(nP, nT, nS) ==
    [i \in 1..nS |-> SqlInsertSeance(<<>>, GuardTraitements(nP, nT), i, 1, 1, 1, 45)[i]]

InitGuard ==
    /\ \E nP \in 0..GuardRows :
          \E nT \in (IF nP = 0 THEN {0} ELSE 0..GuardRows) :
             \E nS \in (IF nT = 0 THEN {0} ELSE 0..GuardRows) :
                /\ patients = GuardPatients(nP)
                /\ traitements = GuardTraitements(nP, nT)
                /\ seances = GuardSeances(nP, nT, nS)
                /\ sqlite_sequence = [patients |-> nP, traitements |-> nT, seances |-> nS]
    /\ level \in {"dashboard", "patients", "traitements", "seances"}
    /\ current_patient_id \in {None} \cup DOMAIN patients
    /\ current_traitement_id \in {None} \cup DOMAIN traitements
    /\ current_seance_id \in {None} \cup DOMAIN seances
    /\ search = <<>>
    /\ patients_table = EmptyTable
    /\ traitements_table = EmptyTable
    /\ seances_table = EmptyTable
    /\ last = [event |-> "read", raised |-> "", removed |-> 0]
    /\ t_df = <<>>
    /\ s_df = <<>>
    /\ result = NotCalled
    /\ cache = <<>>
    /\ now = 0
    /\ served = NoCall

\* One run of the script: the page of st.session_state["level"].
view_manager ==
    /\ UNCHANGED storeVars
    /\ UNCHANGED enrichVars
    /\ UNCHANGED cacheVars
    /\ CASE level = "dashboard" ->
               RunDashboard(current_patient_id, current_traitement_id, "read")
         [] level = "patients" ->
               RunPatients(search, patients_table, current_patient_id,
                           current_traitement_id, "read")
         [] level = "traitements" ->
               RunTraitements(current_patient_id, traitements_table,
                              current_traitement_id, "read")
         [] OTHER ->
               RunSeances(current_patient_id, current_traitement_id, seances_table,
                          current_seance_id, "read")

NextGuard == view_manager

SpecGuard == InitGuard /\ [][NextGuard]_vars

(***************************************************************************)
(* Properties of the store: deletion and ownership.                         *)
(***************************************************************************)
\* The treatments of patient p, and the sessions of the treatments in ts.
TraitementsOf(T, p) == {t \in DOMAIN T : T[t].patient_id = p}
SeancesOf(S, ts) == {s \in DOMAIN S : S[s].traitement_id \in ts}

\* C1: deleting patient P removes P, every treatment of P and every session of
\* those treatments in the one step: right after it P, its treatments and their
\* sessions are not found, and no row of the store still names P or one of its
\* treatments as owner.
C1_DeletePatientCascades ==
    [][DeletePatient =>
         LET P == current_patient_id
             ts == TraitementsOf(traitements, P)
             ss == SeancesOf(seances, ts)
         IN /\ P \in DOMAIN patients
            /\ P \notin DOMAIN patients'
            /\ ts \cap DOMAIN traitements' = {}
            /\ ss \cap DOMAIN seances' = {}
            /\ TraitementsOf(traitements', P) = {}
            /\ SeancesOf(seances', ts) = {}]_vars

\* A patient was deleted together with at least one treatment and one session.
C1_Witness ==
    /\ level = "patients"
    /\ last.event = "deleted"
    /\ last.removed >= 3
    /\ current_patient_id = None

\* C2: in every reachable state each treatment names one patient that exists and
\* each session names one treatment that exists.
C2_NoOrphans ==
    /\ \A t \in DOMAIN traitements :
          traitements[t].patient_id # None /\ traitements[t].patient_id \in DOMAIN patients
    /\ \A s \in DOMAIN seances :
          seances[s].traitement_id # None /\ seances[s].traitement_id \in DOMAIN traitements

\* A delete has cascaded and owned rows are left in the store.
C2_Witness ==
    /\ last.event = "deleted"
    /\ last.removed >= 2
    /\ traitements # <<>>
    /\ seances # <<>>

\* C3: deleting treatment T removes T and exactly the sessions of T, deleting a
\* session removes that session only; every other row of the store is unchanged.
C3_DeleteFrame ==
    [][/\ DeleteTraitement =>
            LET T == current_traitement_id
                kept == {s \in DOMAIN seances : seances[s].traitement_id # T}
            IN /\ patients' = patients
               /\ T \in DOMAIN traitements
               /\ DOMAIN traitements' = DOMAIN traitements \ {T}
               /\ \A t \in DOMAIN traitements' : traitements'[t] = traitements[t]
               /\ DOMAIN seances' = kept
               /\ \A s \in kept : seances'[s] = seances[s]
       /\ DeleteSeance =>
            LET sid == current_seance_id
            IN /\ patients' = patients
               /\ traitements' = traitements
               /\ sid \in DOMAIN seances
               /\ DOMAIN seances' = DOMAIN seances \ {sid}
               /\ \A s \in DOMAIN seances' : seances'[s] = seances[s]]_vars

\* A treatment was deleted with a session of its own while another treatment
\* and its session stayed.
C3_Witness ==
    /\ level = "traitements"
    /\ last.event = "deleted"
    /\ last.removed = 2
    /\ Cardinality(DOMAIN traitements) = 1
    /\ Cardinality(DOMAIN seances) = 1

(***************************************************************************)
(* Properties of progression_traitement.                                    *)
(***************************************************************************)
\* The sessions of the frame s under treatment i whose flag col is set.
Flagged(s, col, i) == {j \in 1..Len(s) : s[j].traitement_id = i /\ s[j][col] = Num(1)}
Under(s, i) == {j \in 1..Len(s) : s[j].traitement_id = i}

\* C4: for every treatment with a tarif, montant_du is (seances_effectuees -
\* seances_payees) * tarif_par_seance, not clamped: it is below zero when more
\* seances are paid than done and the tarif is above zero.
C4_MontantDu ==
    result.called =>
       \A k \in 1..Len(t_df) :
          t_df[k].tarif_par_seance # NULL =>
             /\ result.raised = ""
             /\ LET r == result.rows[k]
                    tarif == t_df[k].tarif_par_seance[1]
                IN /\ r.id = t_df[k].id
                   /\ r.montant_du = Num((r.seances_effectuees - r.seances_payees) * tarif)
                   /\ (r.seances_payees > r.seances_effectuees /\ tarif > 0)
                         => r.montant_du[1] < 0

\* A treatment with more seances paid than done and a negative montant_du.
C4_Witness ==
    /\ result.called
    /\ result.raised = ""
    /\ \E k \in 1..Len(result.rows) :
          /\ result.rows[k].seances_payees > result.rows[k].seances_effectuees
          /\ result.rows[k].montant_du # NaN
          /\ result.rows[k].montant_du[1] < 0

C6_Counts ==
    (result.called /\ result.raised = "") =>
       \A k \in 1..Len(t_df) :
          LET r == result.rows[k]
              i == t_df[k].id
          IN /\ r.seances_effectuees = Cardinality(Flagged(s_df, "effectuee", i))
             /\ r.seances_payees = Cardinality(Flagged(s_df, "payee", i))
             /\ Under(s_df, i) = {} =>
                   /\ r.seances_effectuees = 0
                   /\ r.seances_payees = 0
                   /\ t_df[k].nb_seances_prevues # NULL => r.progress = Zero
                   /\ t_df[k].tarif_par_seance # NULL => r.montant_du = Num(0)

\* Two treatments, one with a seance done and one with no seance at all.
C6_Witness ==
    /\ result.called
    /\ result.raised = ""
    /\ \E k, m \in 1..Len(result.rows) :
          /\ result.rows[k].seances_effectuees >= 1
          /\ Under(s_df, result.rows[m].id) = {}
          /\ result.rows[m].progress = Zero
          /\ result.rows[m].montant_du = Num(0)

C9_NullAsZero ==
    result.called =>
       /\ result.raised = ""
       /\ \A k \in 1..Len(t_df) :
             /\ result.rows[k].progress # NaN
             /\ result.rows[k].montant_du # NaN
             /\ t_df[k].tarif_par_seance = NULL => result.rows[k].montant_du = Num(0)
             /\ t_df[k].nb_seances_prevues = NULL => result.rows[k].progress = Zero

(***************************************************************************)
(* The scenario.                                                            *)
(***************************************************************************)
\* The store holds a treatment t of 10 planned seances at 200 with 4 seances,
\* 3 of them done and 1 paid.
ScenarioState(t) ==
    /\ traitements[t].nb_seances_prevues = 10
    /\ traitements[t].tarif_par_seance = 200
    /\ Cardinality(SeancesOf(seances, {t})) = 4
    /\ Cardinality({s \in SeancesOf(seances, {t}) : seances[s].effectuee = 1}) = 3
    /\ Cardinality({s \in SeancesOf(seances, {t}) : seances[s].payee = 1}) = 1

\* C7: with a treatment of 10 planned seances at 200 and 4 seances, 3 done and
\* 1 paid, the call on the frames read from the store gives that treatment
\* seances_effectuees 3, seances_payees 1, progress 3/10 and montant_du 400.
C7_Scenario ==
    \A t \in DOMAIN traitements :
       ScenarioState(t) =>
          LET out == EnrichStore(traitements, seances)
          IN /\ out.raised = ""
             /\ \E k \in 1..Len(out.rows) :
                   /\ out.rows[k].id = t
                   /\ out.rows[k].seances_effectuees = 3
                   /\ out.rows[k].seances_payees = 1
                   /\ out.rows[k].progress = <<3, 10>>
                   /\ out.rows[k].montant_du = Num(400)

\* The scenario's state, reached by an update of a seance.
C7_Witness ==
    /\ last.event = "updated"
    /\ level = "seances"
    /\ \E t \in DOMAIN traitements : ScenarioState(t)

(***************************************************************************)
(* Properties of the selection.                                             *)
(***************************************************************************)
\* C10: when a patient is selected and a search is typed whose rows do not
\* hold that patient, no patient is selected after the run; the selection is
\* never the patient that now stands at the same position.
C10_SelectionReconciled ==
    [][(/\ SetSearch(MainD)
        /\ current_patient_id # None
        /\ current_patient_id \notin Ids(list_patients(patients, search')))
          => current_patient_id' = None]_vars

\* C11: after the selected patient, traitement or seance is deleted, the run
\* that renders the page again ends without an exception and with no row
\* selected at that level: the id is None, not the id of a row that is left,
\* and the button that opens the child page is disabled.
C11_SelectionAfterDelete ==
    [][/\ DeletePatient =>
            /\ last'.raised = ""
            /\ level' = "patients"
            /\ patients_table'.rows = <<>>
            /\ current_patient_id' = None
            /\ ~HasRow(list_patients(patients', search'), current_patient_id')
       /\ DeleteTraitement =>
            /\ last'.raised = ""
            /\ level' = "traitements"
            /\ traitements_table'.rows = <<>>
            /\ current_traitement_id' = None
            /\ ~HasRow(list_traitements(traitements', current_patient_id', NoStatut),
                       current_traitement_id')
       /\ DeleteSeance =>
            /\ last'.raised = ""
            /\ level' = "seances"
            /\ seances_table'.rows = <<>>
            /\ current_seance_id' = None]_vars

\* A traitement was deleted while another one stays in the table.
C11_Witness ==
    /\ level = "traitements"
    /\ last.event = "deleted"
    /\ last.raised = ""
    /\ current_traitement_id = None
    /\ list_traitements(traitements, current_patient_id, NoStatut) # <<>>

\* C12: the selection is an entity id: when a patient is selected and a patient
\* is added or updated so that the rows of the view change while the selected
\* patient stays in the view, the patient selected after the run is the same.
C12_SelectionFollowsEntity ==
    [][(/\ AddPatient(MainD) \/ UpdatePatient(MainD)
        /\ current_patient_id # None
        /\ list_patients(patients', search') # list_patients(patients, search)
        /\ current_patient_id \in Ids(list_patients(patients', search')))
          => current_patient_id' = current_patient_id]_vars

(***************************************************************************)
(* Properties of the cache.                                                 *)
(***************************************************************************)
\* The statements of the application.
WriteOps ==
    {"insert patients", "update patients", "delete patients",
     "insert traitements", "update traitements", "delete traitements",
     "insert seances", "update seances", "delete seances"}

\* C13: a write of the application, of any kind, leaves no memoized entry of
\* any function and arguments, and the list_* call that follows a write
\* computes its rows on the store as the write left it.
C13_FreshAfterWrite ==
    [][/\ AppWrite(CacheD) => (cache' = <<>> /\ served'.op \in WriteOps)
       /\ (CachedCall(CacheD) /\ served.op \in WriteOps) =>
             /\ ~served'.hit
             /\ served'.rows = Query(served'.key, patients, traitements, seances)]_vars

\* A call has computed the patients on the store right after the delete of the
\* patient that an entry, memoized before, would still have listed.
C13_Witness ==
    /\ served.op = "read"
    /\ ~served.hit
    /\ served.key = Key("patients", <<>>, None)
    /\ served.rows = <<>>
    /\ sqlite_sequence.patients = 1
    /\ now = 0

\* C14: an entry is served only to a call with its function and arguments and
\* only while it is younger than the ttl of 10: the rows served are those
\* memoized at a time less than 10 before; a call that finds no entry, or one
\* of age 10 or more, computes the rows on the store and memoizes them at the
\* time of the call; no other call changes the entry.
C14_ServedWithinTTL ==
    [][CachedCall(CacheD) =>
         LET key == served'.key
         IN /\ served'.hit =>
                  /\ key \in DOMAIN cache
                  /\ now - cache[key].at < TTL
                  /\ served'.rows = cache[key].rows
                  /\ cache' = cache
            /\ (key \notin DOMAIN cache \/ now - cache[key].at >= TTL) =>
                  /\ ~served'.hit
                  /\ served'.rows = Query(key, patients, traitements, seances)
                  /\ cache'[key] = [rows |-> served'.rows, at |-> now]
            /\ \A k \in DOMAIN cache \ {key} : k \in DOMAIN cache' /\ cache'[k] = cache[k]]_vars

\* An entry of age 9 was served although the store has changed since, another
\* process having written; the entry for the other search is not the same.
C14_Witness ==
    /\ served.op = "read"
    /\ served.hit
    /\ served.key = Key("patients", <<>>, None)
    /\ now - cache[served.key].at = TTL - 1
    /\ served.rows # Query(served.key, patients, traitements, seances)
    /\ Key("patients", <<"y">>, None) \in DOMAIN cache
    /\ cache[Key("patients", <<"y">>, None)].rows # served.rows

(***************************************************************************)
(* Properties of the navigation.                                            *)
(***************************************************************************)
\* C15: the traitements page is opened from the patients page only when a row
\* of the patients table, as the search filters it, is selected, and it is
\* opened for the patient of that row.
C15_OpenTraitements ==
    [][OpenTraitements =>
         LET df == list_patients(patients, search)
             rows == patients_table.rows
         IN /\ level = "patients"
            /\ rows # <<>>
            /\ rows[1] <= Len(df)
            /\ df[rows[1]].id = current_patient_id
            /\ current_patient_id # None
            /\ level' = "traitements"
            /\ current_patient_id' = current_patient_id]_vars

\* The traitements page is open for the second of two patients.
C15_Witness ==
    /\ level = "traitements"
    /\ current_patient_id = 2
    /\ DOMAIN patients = {1, 2}
    /\ last.raised = ""

\* C16: the seances page is opened from the traitements page of patient p only
\* when a row of the traitements table of p is selected; it is opened for the
\* traitement of that row and for the same p, and that traitement is one of p.
C16_OpenSeances ==
    [][OpenSeances =>
         LET df == list_traitements(traitements, current_patient_id, NoStatut)
             rows == traitements_table.rows
         IN /\ level = "traitements"
            /\ rows # <<>>
            /\ rows[1] <= Len(df)
            /\ df[rows[1]].id = current_traitement_id
            /\ current_traitement_id \in DOMAIN traitements
            /\ traitements[current_traitement_id].patient_id = current_patient_id
            /\ level' = "seances"
            /\ current_traitement_id' = current_traitement_id
            /\ current_patient_id' = current_patient_id]_vars

\* The seances page is open for the older of two traitements, the second row.
C16_Witness ==
    /\ level = "seances"
    /\ current_traitement_id = 1
    /\ DOMAIN traitements = {1, 2}
    /\ traitements[1].patient_id = current_patient_id
    /\ last.raised = ""

\* C17: entering a page clears the selection of its level and of the levels
\* below: the patients page clears patient, traitement and seance, the
\* traitements page traitement and seance, the seances page the seance; so
\* outside the seances page no seance is selected.
C17_EntryClearsSelection ==
    [][/\ (level' = "patients" /\ level # "patients") =>
             /\ current_patient_id' = None
             /\ current_traitement_id' = None
             /\ current_seance_id' = None
       /\ (level' = "traitements" /\ level # "traitements") =>
             /\ current_traitement_id' = None
             /\ current_seance_id' = None
       /\ (level' = "seances" /\ level # "seances") => current_seance_id' = None
       /\ level' # "seances" => current_seance_id' = None]_vars

\* C18: the first page is the dashboard, from which the patients page can
\* always be opened; "Retour aux traitements" leads from the seances page to
\* the traitements page of the same patient, "Retour aux patients" from the
\* traitements page to the patients page.
C18_BackTransitions ==
    /\ level = "dashboard"
    /\ [](level = "dashboard" => ENABLED DashboardToPatients)
    /\ [][/\ (SeancesToTraitements =>
                (/\ level = "seances"
                 /\ level' = "traitements"
                 /\ current_patient_id' = current_patient_id
                 /\ current_patient_id' # None
                 /\ last'.raised = ""))
           /\ (TraitementsToPatients =>
                (/\ level = "traitements"
                 /\ level' = "patients"
                 /\ last'.raised = ""))
           /\ (DashboardToPatients => level' = "patients")]_vars

\* Back on the traitements page of the patient, a seance having been created.
C18_Witness ==
    /\ level = "traitements"
    /\ seances # <<>>
    /\ current_patient_id \in DOMAIN patients
    /\ last.event = "read"
    /\ last.raised = ""

\* A child page asked for without its parent selection.
NoParentSelection ==
    \/ level = "traitements" /\ current_patient_id = None
    \/ level = "seances" /\ (current_patient_id = None \/ current_traitement_id = None)

C19_GuardRedirects ==
    [][(NoParentSelection /\ view_manager) =>
          (/\ last'.raised = ""
           /\ level' = "patients"
           /\ current_patient_id' = None
           /\ current_traitement_id' = None)]_vars

\* The durations of SeancesD outside 15..240.
OutOfRange == {typed \in SeancesD.durees : typed < 15 \/ typed > 240}

\* Every stored duree_minutes is within 15..240.
DureeInRange ==
    \A s \in DOMAIN seances :
       15 <= seances[s].duree_minutes /\ seances[s].duree_minutes <= 240

\* C20: "Enregistrer" in the add form with a duration outside 15..240 typed
\* is rejected and writes nothing, and no stored seance has a duration
\* outside 15..240, whether created or updated.
C20_OutOfRangeRejected ==
    /\ []DureeInRange
    /\ [][\A typed \in OutOfRange :
             AddSeance([SeancesD EXCEPT !.durees = {typed}]) =>
                (UNCHANGED storeVars /\ last'.event = "rejected")]_vars

\* A text with nothing but spaces.
Blank(s) == \A i \in 1..Len(s) : s[i] = " "

\* C21: "Enregistrer" or "Mettre a jour" with a nom that is blank is refused
\* with st.error and leaves the store and the cache as they were; every stored
\* patient has a nom that is not blank.
C21_NomRequired ==
    /\ [](\A p \in DOMAIN patients : ~Blank(patients[p].nom))
    /\ [][\A nom \in {n \in MainD.noms : Blank(n)} :
             (\/ AddPatient([MainD EXCEPT !.noms = {nom}])
              \/ UpdatePatient([MainD EXCEPT !.noms = {nom}])) =>
                (/\ UNCHANGED storeVars
                 /\ UNCHANGED cacheVars
                 /\ last'.event = "rejected"
                 /\ last'.raised = "")]_vars

\* A blank nom was refused on the patients page with a patient stored.
C21_Witness ==
    /\ level = "patients"
    /\ last.event = "rejected"
    /\ patients # <<>>

\* The step is a statement of the patient form on an id the store does not hold.
AbsentId ==
    /\ served'.op \in {"update patients", "delete patients"}
    /\ served'.key.id # None
    /\ served'.key.id \notin DOMAIN patients

\* C22: an update or a delete naming an id that is not in the store changes
\* nothing in the store and tells the user that the row was not found.
C22_NotFoundSignalled ==
    [][AbsentId => (UNCHANGED storeVars /\ last'.event = "not found")]_vars

\* What does hold: the statement changes nothing in the store.
C22_AbsentIdNoOp ==
    [][AbsentId => UNCHANGED storeVars]_vars

\* a <= b for TEXT values, in the byte order of ORDER BY.
TextLeq(a, b) == a = b \/ TextLess(a, b)

\* C23: list_patients returns its rows in the order of (nom, prenom),
\* list_traitements in the order of (date_debut descending, id descending),
\* which leaves no two rows in either order, and list_seances in the order of
\* (date ascending, heure ascending).
C23_Ordering ==
    served.op = "list" =>
       \A i, j \in 1..Len(served.rows) :
          i < j =>
             LET x == served.rows[i]
                 y == served.rows[j]
             IN CASE served.key.kind = "patients" ->
                        \/ TextLess(x.nom, y.nom)
                        \/ (x.nom = y.nom /\ TextLeq(x.prenom, y.prenom))
                  [] served.key.kind = "traitements" ->
                        \/ x.date_debut > y.date_debut
                        \/ (x.date_debut = y.date_debut /\ x.id > y.id)
                  [] served.key.kind = "seances" ->
                        \/ x.date < y.date
                        \/ (x.date = y.date /\ x.heure <= y.heure)

\* Two patients of one nom were listed by prenom, against the order of their
\* ids.
C23_Witness ==
    /\ served.op = "list"
    /\ served.key.kind = "patients"
    /\ Len(served.rows) = 2
    /\ served.rows[1].nom = served.rows[2].nom
    /\ served.rows[1].prenom # served.rows[2].prenom
    /\ served.rows[1].id > served.rows[2].id

\* srch occurs in value, letter case apart.
Contains(value, srch) ==
    \E i \in 1..(Len(value) - Len(srch) + 1) :
        SubSeq(LowerText(value), i, i + Len(srch) - 1) = LowerText(srch)

\* The rows a call is to return, by the filter of its arguments.
Matching(args) ==
    CASE args.kind = "patients" ->
            {p \in DOMAIN patients :
                \/ args.search = <<>>
                \/ Contains(patients[p].nom, args.search)
                \/ Contains(patients[p].prenom, args.search)
                \/ Contains(patients[p].telephone, args.search)
                \/ Contains(patients[p].cin, args.search)}
      [] args.kind = "traitements" ->
            {t \in DOMAIN traitements :
                /\ (args.id # None => traitements[t].patient_id = args.id)
                /\ (args.statut # NoStatut => traitements[t].statut = args.statut)}
      [] args.kind = "seances" ->
            {x \in DOMAIN seances :
                /\ (args.id # None => seances[x].traitement_id = args.id)
                /\ (args.date_min # NoDate => args.date_min <= seances[x].date)
                /\ (args.date_max # NoDate => seances[x].date <= args.date_max)}

\* C24: a list call returns exactly the rows its filter selects, each once:
\* the patients with the search text in nom, prenom, telephone or cin, letter
\* case apart (all of them for the empty search); the traitements of the
\* patient and of the statut; the seances of the traitement with
\* date_min <= date <= date_max.
C24_Filtering ==
    served.op = "list" =>
       /\ Ids(served.rows) = Matching(served.key)
       /\ Len(served.rows) = Cardinality(Matching(served.key))

\* The same for the searches without "%" and "_".
C24_FilteringPlainText ==
    (/\ served.op = "list"
     /\ \A i \in 1..Len(served.key.search) : served.key.search[i] \notin {"%", "_"}) =>
       /\ Ids(served.rows) = Matching(served.key)
       /\ Len(served.rows) = Cardinality(Matching(served.key))

\* C25: effectuee and payee are stored as submitted, whatever the other is
\* (payee = 1 with effectuee = 0 included), and a flag of a stored seance
\* changes only by "Mettre a jour" on that seance.
C25_FlagsIndependent ==
    /\ [](\A sid \in DOMAIN seances : \A e, f \in {0, 1} :
            LET row == SqlUpdateSeance(seances, sid, seances[sid].date, seances[sid].heure,
                                       seances[sid].duree_minutes, e, f)[sid]
            IN row.effectuee = e /\ row.payee = f)
    /\ [][\A sid \in DOMAIN seances \cap DOMAIN seances' :
             (\/ seances'[sid].effectuee # seances[sid].effectuee
              \/ seances'[sid].payee # seances[sid].payee) =>
                (/\ UpdateSeance(SeancesD)
                 /\ sid = current_seance_id
                 /\ last'.event = "updated")]_vars

\* A seance was updated to payee = 1 with effectuee = 0.
C25_Witness ==
    /\ last.event = "updated"
    /\ \E sid \in DOMAIN seances : seances[sid].payee = 1 /\ seances[sid].effectuee = 0

\* C26: the patient_id of a stored traitement and the traitement_id of a
\* stored seance never change; an id names the same row as long as it is
\* stored.
C26_OwnersImmutable ==
    [][/\ \A t \in DOMAIN traitements \cap DOMAIN traitements' :
             traitements'[t].patient_id = traitements[t].patient_id
       /\ \A x \in DOMAIN seances \cap DOMAIN seances' :
             seances'[x].traitement_id = seances[x].traitement_id
       /\ (UpdateTraitement(OwnersD) \/ UpdateSeance(OwnersD)) =>
             (/\ DOMAIN traitements' = DOMAIN traitements
              /\ DOMAIN seances' = DOMAIN seances)]_vars

\* A seance whose id is not the id of its traitement was updated, with a
\* second traitement stored.
C26_Witness ==
    /\ last.event = "updated"
    /\ level = "seances"
    /\ current_seance_id \in DOMAIN seances
    /\ seances[current_seance_id].traitement_id # current_seance_id
    /\ current_seance_id \in DOMAIN traitements

\* C27: the id of a row created is larger than every id its table was ever
\* given, the ids of deleted rows included (sqlite_sequence holds the largest
\* and never decreases), so no id comes to name another row; each
\* "Enregistrer" that is accepted adds one row.
C27_NewIds ==
    /\ [](/\ \A p \in DOMAIN patients : p <= sqlite_sequence.patients
          /\ \A t \in DOMAIN traitements : t <= sqlite_sequence.traitements
          /\ \A x \in DOMAIN seances : x <= sqlite_sequence.seances)
    /\ [][/\ sqlite_sequence'.patients >= sqlite_sequence.patients
           /\ sqlite_sequence'.traitements >= sqlite_sequence.traitements
           /\ sqlite_sequence'.seances >= sqlite_sequence.seances
           /\ \A p \in DOMAIN patients' \ DOMAIN patients : p > sqlite_sequence.patients
           /\ \A t \in DOMAIN traitements' \ DOMAIN traitements :
                 t > sqlite_sequence.traitements
           /\ \A x \in DOMAIN seances' \ DOMAIN seances : x > sqlite_sequence.seances
           /\ last'.event = "added" =>
                 Rows(patients', traitements', seances') =
                    Rows(patients, traitements, seances) + 1]_vars

\* A patient was created after patient 1 was deleted: it is patient 2.
C27_Witness ==
    /\ last.event = "added"
    /\ level = "patients"
    /\ DOMAIN patients = {2}

\* C28: every stored traitement has nb_seances_prevues > 0 and
\* tarif_par_seance >= 0, whatever was typed in the forms; a traitement
\* created with no acceptable number typed has the default, 10, or the limit.
C28_PlannedAndTarif ==
    /\ [](\A t \in DOMAIN traitements :
            /\ traitements[t].nb_seances_prevues > 0
            /\ traitements[t].tarif_par_seance >= 0)
    /\ [][\A typed \in {n \in TraitementsD.nbs : n < 1} :
             AddTraitement([TraitementsD EXCEPT !.nbs = {typed}]) =>
                \A t \in DOMAIN traitements' \ DOMAIN traitements :
                   traitements'[t].nb_seances_prevues \in {10, 1}]_vars

\* A traitement written by a form is stored with 10 seances and a tarif of 5.
C28_Witness ==
    /\ level = "traitements"
    /\ last.event \in {"added", "updated"}
    /\ \E t \in DOMAIN traitements :
          /\ traitements[t].nb_seances_prevues = 10
          /\ traitements[t].tarif_par_seance = 5

\* C29: the level is one of dashboard, patients, traitements, seances; at the
\* traitements level current_patient_id is set and is a stored patient; at the
\* seances level current_patient_id and current_traitement_id are set and
\* stored and the traitement is a traitement of that patient.
C29_StateShape ==
    /\ level \in {"dashboard", "patients", "traitements", "seances"}
    /\ (level = "traitements" =>
          /\ current_patient_id # None
          /\ current_patient_id \in DOMAIN patients)
    /\ (level = "seances" =>
          /\ current_patient_id # None
          /\ current_traitement_id # None
          /\ current_patient_id \in DOMAIN patients
          /\ current_traitement_id \in DOMAIN traitements
          /\ traitements[current_traitement_id].patient_id = current_patient_id)

\* The seances page of one patient's traitement while another patient has a
\* traitement too.
C29_Witness ==
    /\ Rendered("seances")
    /\ \E t \in DOMAIN traitements :
          traitements[t].patient_id # current_patient_id

\* C30: a step that creates, updates or deletes a row keeps the level, keeps
\* current_patient_id at the traitements and seances levels and keeps
\* current_traitement_id at the seances level; a step that changes the level
\* is one of the open and back buttons.
C30_WritesDoNotNavigate ==
    [][/\ ((\/ last'.event \in {"added", "updated", "deleted"}
            \/ <<patients, traitements, seances>>' # <<patients, traitements, seances>>) =>
             /\ level' = level
             /\ (level \in {"traitements", "seances"} =>
                   current_patient_id' = current_patient_id)
             /\ (level = "seances" => current_traitement_id' = current_traitement_id))
       /\ (level' # level =>
             \/ DashboardToPatients
             \/ PatientsToDashboard
             \/ OpenTraitements
             \/ TraitementsToPatients
             \/ OpenSeances
             \/ SeancesToTraitements)]_vars

\* A seance was deleted on the seances page of a traitement while two
\* traitements are stored.
C30_Witness ==
    /\ level = "seances"
    /\ last.event = "deleted"
    /\ last.removed = 1
    /\ Cardinality(DOMAIN traitements) = 2

\* C31: with this session as the only writer, every memoized entry holds the
\* rows its query returns from the store as it is now, and so does every
\* frame a list_* call has just served.
C31_CacheCoherent ==
    /\ \A key \in DOMAIN cache :
          cache[key].rows = Query(key, patients, traitements, seances)
    /\ (served.op = "read" =>
          served.rows = Query(served.key, patients, traitements, seances))

\* A call served from the cache, with a row, after a write cleared the cache
\* and a call filled it again.
C31_Witness ==
    /\ served.op = "read"
    /\ served.hit
    /\ served.rows # <<>>
    /\ Cardinality(DOMAIN cache) >= 2

\* The seances of the frame s under treatment i, in the order of the frame.
RECURSIVE Own(_, _)
Own(s, i) ==
    IF s = <<>> THEN <<>>
    ELSE (IF Head(s).traitement_id = i THEN <<Head(s)>> ELSE <<>>) \o Own(Tail(s), i)

\* The frame s with every cout set to 0.
CostFree(s) == [j \in 1..Len(s) |-> [s[j] EXCEPT !.cout = Num(0)]]

DerivedFields == {"seances_effectuees", "seances_payees", "progress", "montant_du"}

\* C32: on the frames of a store written by the forms, the call returns one
\* row for each row of the treatments frame, in the order of the frame, with
\* the fields of the frame unchanged and the four derived fields added; the
\* derived fields of a row are those the call gives on that row alone with the
\* seances of its own treatment, whatever their cout.
C32_EnrichFrame ==
    result.called =>
       /\ result.raised = ""
       /\ Len(result.rows) = Len(t_df)
       /\ \A k \in 1..Len(t_df) :
             /\ result.rows[k].id = t_df[k].id
             /\ DOMAIN result.rows[k] = DOMAIN t_df[k] \cup DerivedFields
             /\ \A f \in DOMAIN t_df[k] : result.rows[k][f] = t_df[k][f]
             /\ progression_traitement(<<t_df[k]>>, CostFree(Own(s_df, t_df[k].id))) =
                   [called |-> TRUE, raised |-> "", rows |-> <<result.rows[k]>>]

\* Two treatments in the frame; the first has a seance done, not paid, with a
\* cout, the other a seance too; the call gave the first its tarif as montant_du.
C32_Witness ==
    /\ result.called
    /\ Len(result.rows) = 2
    /\ Len(s_df) = 2
    /\ s_df[1].traitement_id # s_df[2].traitement_id
    /\ \E j \in 1..2 :
          /\ s_df[j].traitement_id = result.rows[1].id
          /\ s_df[j].cout = Num(5)
          /\ s_df[j].effectuee = Num(1)
          /\ s_df[j].payee = Num(0)
    /\ result.rows[1].montant_du = Num(3)

\* The derived figures of the treatment t in the store T, S.
Figures(T, S, t) ==
    LET out == EnrichStore(T, S)
        r == out.rows[CHOOSE k \in 1..Len(out.rows) : out.rows[k].id = t]
    IN [seances_effectuees |-> r.seances_effectuees, seances_payees |-> r.seances_payees,
        progress |-> r.progress, montant_du |-> r.montant_du]

\* C33: a seance created by the form has effectuee = 0 and payee = 0, and its
\* creation leaves the figures of every treatment as they were; the figures
\* of a treatment that stays in the store change only by an update or a
\* delete of a seance or an update of a traitement.
C33_NewSeanceNotCounted ==
    [][<<traitements, seances>>' # <<traitements, seances>> =>
         /\ (DOMAIN seances' \ DOMAIN seances # {} =>
               /\ \A s \in DOMAIN seances' \ DOMAIN seances :
                     seances'[s].effectuee = 0 /\ seances'[s].payee = 0
               /\ \A t \in DOMAIN traitements :
                     Figures(traitements', seances', t) = Figures(traitements, seances, t))
         /\ \A t \in DOMAIN traitements \cap DOMAIN traitements' :
               Figures(traitements', seances', t) # Figures(traitements, seances, t) =>
                  \/ UpdateSeance(FiguresD)
                  \/ DeleteSeance
                  \/ UpdateTraitement(FiguresD)]_vars

\* A second seance was created under a treatment whose first seance is done.
C33_Witness ==
    /\ level = "seances"
    /\ last.event = "added"
    /\ Cardinality(DOMAIN seances) = 2
    /\ Cardinality(DOMAIN traitements) = 2
    /\ \A s \in DOMAIN seances : seances[s].traitement_id = current_traitement_id
    /\ Figures(traitements, seances, current_traitement_id).seances_effectuees = 1

\* C34: for a stored treatment of n > 0 planned seances with k seances done,
\* progress is the fraction k / n: it is not below 0, and it is above 1 when
\* k > n, which the forms allow (a seance is created and marked done whatever
\* the planned count).
C34_ProgressNotClamped ==
    \A t \in DOMAIN traitements :
       LET n == traitements[t].nb_seances_prevues
           k == Cardinality({s \in DOMAIN seances :
                               seances[s].traitement_id = t /\ seances[s].effectuee = 1})
           progress == Figures(traitements, seances, t).progress
       IN n > 0 =>
             /\ progress # NaN
             /\ progress[2] > 0
             /\ progress[1] >= 0
             /\ progress[1] * n = progress[2] * k
             /\ (k > n => progress[1] > progress[2])

\* A treatment of one planned seance with two seances done: progress 2.
C34_Witness ==
    \E t \in DOMAIN traitements :
       /\ traitements[t].nb_seances_prevues = 1
       /\ Cardinality({s \in DOMAIN seances :
                         seances[s].traitement_id = t /\ seances[s].effectuee = 1}) = 2
       /\ Figures(traitements, seances, t).progress = <<2, 1>>

\* The number of back buttons between a level and the dashboard.
Depth(lv) ==
    CASE lv = "dashboard" -> 0
      [] lv = "patients" -> 1
      [] lv = "traitements" -> 2
      [] lv = "seances" -> 3

\* C35: at every level the button that leads one level up can be pressed,
\* whatever the store and the selection and whether the last run raised or
\* not, and pressing it leads one level up without raising; the button of the
\* patients page leads to the dashboard with current_patient_id and
\* current_traitement_id cleared; on the dashboard the button to the patients
\* page can be pressed.
C35_NeverStuck ==
    /\ [](/\ (level = "dashboard" => ENABLED DashboardToPatients)
          /\ (level = "patients" => ENABLED PatientsToDashboard)
          /\ (level = "traitements" => ENABLED TraitementsToPatients)
          /\ (level = "seances" => ENABLED SeancesToTraitements))
    /\ [][/\ ((PatientsToDashboard \/ TraitementsToPatients \/ SeancesToTraitements) =>
                (/\ Depth(level') = Depth(level) - 1
                 /\ last'.raised = ""))
           /\ (PatientsToDashboard =>
                (/\ level' = "dashboard"
                 /\ current_patient_id' = None
                 /\ current_traitement_id' = None))
           /\ (DashboardToPatients => (level' = "patients" /\ last'.raised = ""))]_vars

\* Back on the dashboard from the seances page of a stored seance.
C35_Witness ==
    /\ level = "dashboard"
    /\ DOMAIN seances # {}
    /\ current_patient_id = None
    /\ current_traitement_id = None

====
